---- MODULE Spec2Model ----
(***************************************************************************)
(* Work-order lifecycle of the Harborside facilities application.          *)
(*                                                                         *)
(* The backend is the work_requests table with its triggers and RPC        *)
(* functions; the clients are the public request form, the work-order      *)
(* management screen, the admin dashboard, the calendar and the analytics  *)
(* page.  Every screen keeps its own copy of the rows it fetched, so a     *)
(* screen can act on a row that another screen has changed meanwhile.      *)
(***************************************************************************)
EXTENDS Integers, Sequences, FiniteSets, TLC

(***************************************************************************)
(* Bounds of the model.                                                    *)
(***************************************************************************)
MaxRequests == 2
MaxSteps == 4
MaxListLen == 3
MaxWrites == 3
MaxTasks == 2
MaxPageRows == 11

RequestIds == 1..MaxRequests

\* requested days: the day a request asks for and one other day
Dates == {1, 2}

(***************************************************************************)
(* Nullable columns: Null is the SQL NULL / JS undefined, Some(v) a value. *)
(***************************************************************************)
Null == <<>>
Some(v) == <<v>>
IsNull(x) == x = Null
Val(x) == x[1]

(***************************************************************************)
(* Text.  A string is the sequence of its characters.                      *)
(***************************************************************************)
IsSpace(c) == c = " "

RECURSIVE TrimStart(_)
TrimStart(s) ==
    IF s = <<>> THEN <<>>
    ELSE IF IsSpace(Head(s)) THEN TrimStart(Tail(s)) ELSE s

RECURSIVE TrimEnd(_)
TrimEnd(s) ==
    IF s = <<>> THEN <<>>
    ELSE IF IsSpace(s[Len(s)]) THEN TrimEnd(SubSeq(s, 1, Len(s) - 1)) ELSE s

\* String.prototype.trim
Trim(s) == TrimEnd(TrimStart(s))

\* !s.trim()
IsBlank(s) == Trim(s) = <<>>

Digits == <<"0", "1", "2", "3", "4", "5", "6", "7", "8", "9">>
IsDigit(c) == \E d \in 1..10 : Digits[d] = c
DigitVal(c) == (CHOOSE d \in 1..10 : Digits[d] = c) - 1

\* next_id::TEXT for a non-negative integer
RECURSIVE IntToText(_)
IntToText(n) ==
    IF n < 10 THEN <<Digits[n + 1]>>
    ELSE IntToText(n \div 10) \o <<Digits[(n % 10) + 1]>>

\* CAST(text AS INTEGER) of a digit string
RECURSIVE TextToInt(_)
TextToInt(s) ==
    IF s = <<>> THEN 0
    ELSE 10 * TextToInt(SubSeq(s, 1, Len(s) - 1)) + DigitVal(s[Len(s)])

\* SUBSTRING(s FROM 4)
SubstringFrom4(s) == SubSeq(s, 4, Len(s))

WOPrefix == <<"W", "O", "-">>

\* "the form WO-<n> with n a positive integer"
IsWorkOrderCode(s) ==
    /\ Len(s) > 3
    /\ SubSeq(s, 1, 3) = WOPrefix
    /\ \A i \in 4..Len(s) : IsDigit(s[i])
    /\ TextToInt(SubstringFrom4(s)) > 0

(***************************************************************************)
(* The status enum.                                                        *)
(***************************************************************************)
work_status == {"pending", "approved", "rejected", "in_progress", "paused", "completed"}

Now == "now"

(***************************************************************************)
(* A row of work_requests, restricted to the workflow columns.             *)
(***************************************************************************)
NewRow(date, code) ==
    [ status              |-> "pending",
      requested_date      |-> date,
      date_changed_reason |-> Null,
      approval_checklist  |-> Null,
      approved_by         |-> Null,
      approved_at         |-> Null,
      rejected_by         |-> Null,
      rejected_at         |-> Null,
      rejected_reason     |-> Null,
      started_by          |-> Null,
      started_at          |-> Null,
      completed_by        |-> Null,
      completed_at        |-> Null,
      actual_hours        |-> Null,
      completion_notes    |-> Null,
      work_order_id       |-> code ]

\* the table with row id replaced (UPDATE ... WHERE id = _request_id)
Put(table, id, row) ==
    [i \in DOMAIN table \cup {id} |-> IF i = id THEN row ELSE table[i]]

(***************************************************************************)
(* generate_work_order_id / set_work_order_id                              *)
(***************************************************************************)
SetMax(S) == CHOOSE m \in S : \A x \in S : x <= m

generate_work_order_id_zero(table) ==
    LET nums == { TextToInt(SubstringFrom4(Val(table[i].work_order_id))) :
                    i \in { j \in DOMAIN table : ~IsNull(table[j].work_order_id) } }
        next_id == IF nums = {} THEN 0 ELSE SetMax(nums)
    IN  WOPrefix \o IntToText(next_id)

generate_work_order_id(table) ==
    LET nums == { TextToInt(SubstringFrom4(Val(table[i].work_order_id))) :
                    i \in { j \in DOMAIN table : ~IsNull(table[j].work_order_id) } }
        next_id == (IF nums = {} THEN 0 ELSE SetMax(nums)) + 1
    IN  WOPrefix \o IntToText(next_id)

\* BEFORE INSERT trigger: fills work_order_id when the insert left it NULL
set_work_order_id(table, new) ==
    IF IsNull(new.work_order_id)
    THEN [new EXCEPT !.work_order_id = Some(generate_work_order_id(table))]
    ELSE new

(***************************************************************************)
(* update_work_request_status: one UPDATE whose SET list is a CASE per     *)
(* target status.  Omitted arguments are NULL.  A request id that matches  *)
(* no row updates nothing.                                                 *)
(***************************************************************************)
\* the earlier overload (six arguments), which updates the rows of
\* pending_work_requests and has no date argument
update_work_request_status_v1(table, _request_id, _status, _user_name, _reason, _hours, _notes) ==
    IF _request_id \notin DOMAIN table THEN table
    ELSE LET old == table[_request_id]
             new == [ old EXCEPT
                 !.status = _status,
                 !.approved_by = IF _status = "approved" THEN _user_name ELSE old.approved_by,
                 !.approved_at = IF _status = "approved" THEN Some(Now) ELSE old.approved_at,
                 !.rejected_by = IF _status = "rejected" THEN _user_name ELSE old.rejected_by,
                 !.rejected_at = IF _status = "rejected" THEN Some(Now) ELSE old.rejected_at,
                 !.rejected_reason = IF _status = "rejected" THEN _reason ELSE old.rejected_reason,
                 !.started_by = IF _status = "in_progress" THEN _user_name ELSE old.started_by,
                 !.started_at = IF _status = "in_progress" THEN Some(Now) ELSE old.started_at,
                 !.completed_by = IF _status = "completed" THEN _user_name ELSE old.completed_by,
                 !.completed_at = IF _status = "completed" THEN Some(Now) ELSE old.completed_at,
                 !.actual_hours = IF _status = "completed" THEN _hours ELSE old.actual_hours,
                 !.completion_notes = IF _status = "completed" THEN _notes ELSE old.completion_notes ]
         IN  Put(table, _request_id, new)

update_work_request_status_unconditional(table, _request_id, _status, _user_name, _reason, _hours, _notes, _new_requested_date) ==
    IF _request_id \notin DOMAIN table THEN table
    ELSE LET old == table[_request_id]
             new == [ old EXCEPT
                 !.status = _status,
                 !.requested_date = IF IsNull(_new_requested_date) THEN old.requested_date
                                    ELSE Val(_new_requested_date),
                 !.approved_by = IF _status = "approved" THEN _user_name ELSE old.approved_by,
                 !.approved_at = IF _status = "approved" THEN Some(Now) ELSE old.approved_at,
                 !.rejected_by = IF _status = "rejected" THEN _user_name ELSE old.rejected_by,
                 !.rejected_at = IF _status = "rejected" THEN Some(Now) ELSE old.rejected_at,
                 !.rejected_reason = _reason,
                 !.started_by = IF _status = "in_progress" THEN _user_name ELSE old.started_by,
                 !.started_at = IF _status = "in_progress" THEN Some(Now) ELSE old.started_at,
                 !.completed_by = IF _status = "completed" THEN _user_name ELSE old.completed_by,
                 !.completed_at = IF _status = "completed" THEN Some(Now) ELSE old.completed_at,
                 !.actual_hours = IF _status = "completed" THEN _hours ELSE old.actual_hours,
                 !.completion_notes = IF _status = "completed" THEN _notes ELSE old.completion_notes ]
         IN  Put(table, _request_id, new)

update_work_request_status(table, _request_id, _status, _user_name, _reason, _hours, _notes, _new_requested_date) ==
    IF _request_id \notin DOMAIN table THEN table
    ELSE LET old == table[_request_id]
             new == [ old EXCEPT
                 !.status = _status,
                 !.requested_date = IF IsNull(_new_requested_date) THEN old.requested_date
                                    ELSE Val(_new_requested_date),
                 !.approved_by = IF _status = "approved" THEN _user_name ELSE old.approved_by,
                 !.approved_at = IF _status = "approved" THEN Some(Now) ELSE old.approved_at,
                 !.rejected_by = IF _status = "rejected" THEN _user_name ELSE old.rejected_by,
                 !.rejected_at = IF _status = "rejected" THEN Some(Now) ELSE old.rejected_at,
                 !.rejected_reason = IF _status = "rejected" THEN _reason ELSE old.rejected_reason,
                 !.started_by = IF _status = "in_progress" THEN _user_name ELSE old.started_by,
                 !.started_at = IF _status = "in_progress" THEN Some(Now) ELSE old.started_at,
                 !.completed_by = IF _status = "completed" THEN _user_name ELSE old.completed_by,
                 !.completed_at = IF _status = "completed" THEN Some(Now) ELSE old.completed_at,
                 !.actual_hours = IF _status = "completed" THEN _hours ELSE old.actual_hours,
                 !.completion_notes = IF _status = "completed" THEN _notes ELSE old.completion_notes ]
         IN  Put(table, _request_id, new)

(***************************************************************************)
(* notify_work_request_webhook: the trigger function of                    *)
(* work_requests_webhook_trigger (AFTER INSERT OR UPDATE, FOR EACH ROW).   *)
(* It returns the body it hands to net.http_post.  Of the columns the      *)
(* model keeps, the body names these; title, description, department,      *)
(* the requestor columns, priority, location, category, estimated_hours,   *)
(* created_at and updated_at are in the body too and are not modelled.     *)
(***************************************************************************)
notify_work_request_webhook_old_row(TG_OP, id, OLD_, NEW_) ==
    [ operation           |-> TG_OP,
      id                  |-> id,
      work_order_id       |-> NEW_.work_order_id,
      requested_date      |-> IF TG_OP = "UPDATE" THEN OLD_.requested_date ELSE NEW_.requested_date,
      status              |-> NEW_.status,
      date_changed_reason |-> NEW_.date_changed_reason,
      approval_checklist  |-> NEW_.approval_checklist,
      old_requested_date  |-> IF TG_OP = "UPDATE" THEN Some(OLD_.requested_date) ELSE Null,
      table_name          |-> "work_requests" ]

notify_work_request_webhook(TG_OP, id, OLD_, NEW_) ==
    [ operation           |-> TG_OP,
      id                  |-> id,
      work_order_id       |-> NEW_.work_order_id,
      requested_date      |-> NEW_.requested_date,
      status              |-> NEW_.status,
      date_changed_reason |-> NEW_.date_changed_reason,
      approval_checklist  |-> NEW_.approval_checklist,
      old_requested_date  |-> IF TG_OP = "UPDATE" THEN Some(OLD_.requested_date) ELSE Null,
      table_name          |-> "work_requests" ]

\* CREATE TRIGGER work_requests_webhook_trigger AFTER INSERT OR UPDATE
work_requests_webhook_trigger(TG_OP) == TG_OP \in {"INSERT", "UPDATE"}

(***************************************************************************)
(* approve_work_request: copies the row of pending_work_requests into      *)
(* approved_work and deletes it from pending_work_requests; raises when    *)
(* the id is not in pending_work_requests.  work_requests is not touched.  *)
(***************************************************************************)
approve_work_request_on_work_requests(wr, pend, appr, _request_id) ==
    IF _request_id \notin DOMAIN wr
    THEN [error |-> TRUE, work_requests |-> wr, pending_work_requests |-> pend, approved_work |-> appr]
    ELSE [error |-> FALSE,
          work_requests |-> [i \in DOMAIN wr \ {_request_id} |-> wr[i]],
          pending_work_requests |-> pend,
          approved_work |-> appr \cup {_request_id}]

approve_work_request(wr, pend, appr, _request_id) ==
    IF _request_id \notin pend
    THEN [error |-> TRUE, work_requests |-> wr, pending_work_requests |-> pend, approved_work |-> appr]
    ELSE [error |-> FALSE,
          work_requests |-> wr,
          pending_work_requests |-> pend \ {_request_id},
          approved_work |-> appr \cup {_request_id}]

(***************************************************************************)
(* start_work and complete_work are called by the work-order management    *)
(* screen; their bodies are the status transitions the specification       *)
(* describes: the target status with its actor/timestamp pair, and for     *)
(* completion the actual hours and the notes.                              *)
(***************************************************************************)
start_work(table, approved_id, started_by_user) ==
    IF approved_id \notin DOMAIN table THEN table
    ELSE Put(table, approved_id,
             [table[approved_id] EXCEPT !.status = "in_progress",
                                        !.started_by = Some(started_by_user),
                                        !.started_at = Some(Now)])

complete_work(table, started_id, completed_by_user, actual_hours_worked, notes) ==
    IF started_id \notin DOMAIN table THEN table
    ELSE Put(table, started_id,
             [table[started_id] EXCEPT !.status = "completed",
                                       !.completed_by = Some(completed_by_user),
                                       !.completed_at = Some(Now),
                                       !.actual_hours = Some(actual_hours_worked),
                                       !.completion_notes = notes])

(***************************************************************************)
(* supabase.from("work_requests").update(updateData).eq("id", id): the     *)
(* columns named in updateData are overwritten, the others kept.           *)
(***************************************************************************)
Merge(row, updateData) ==
    [f \in DOMAIN row |-> IF f \in DOMAIN updateData THEN updateData[f] ELSE row[f]]

TableUpdate(table, id, updateData) ==
    IF id \notin DOMAIN table THEN table
    ELSE Put(table, id, Merge(table[id], updateData))

(***************************************************************************)
(* Inputs the screens accept.                                              *)
(***************************************************************************)
\* the minimum length of a rejection reason in the reject dialog
MinReasonLen == 10

\* texts typed as rejection reason: empty, too short once trimmed, a quick reason
RejectReasonInputs ==
    { <<>>,
      <<" ", "t", "o", "o", " ", "s", "h", "o", "r", "t", " ">>,
      <<"O", "u", "t", " ", "o", "f", " ", "s", "c", "o", "p", "e">> }

\* the reason the dashboard's Reject button passes
RejectedByAdmin ==
    <<"R", "e", "j", "e", "c", "t", "e", "d", " ", "b", "y", " ", "a", "d", "m", "i", "n">>

\* texts typed as reason of a date change: empty, blank, padded
DateReasonInputs == { <<>>, <<" ">>, <<" ", "o", "k">> }

\* the cleared date input of the approval dialog (value "")
NoDate == 0

\* the hours field of the work-order management complete dialog (a number)
HoursInputs == {-1, 0, 2}

\* texts typed into the dashboard's hours field
HoursTextInputs == { <<>>, <<"0">>, <<"-", "1">>, <<"3">> }

\* completion notes typed in either dialog
NotesInputs == { <<>> }

\* the checklist built in an approval dialog
ChecklistInputs == { <<>>, <<[id |-> "item-1", text |-> <<"k", "e", "y">>, completed |-> FALSE]>> }

\* parseFloat: the longest numeric prefix, NaN (Null) when there is none
RECURSIVE DigitPrefix(_)
DigitPrefix(s) ==
    IF s = <<>> \/ ~IsDigit(Head(s)) THEN <<>>
    ELSE <<Head(s)>> \o DigitPrefix(Tail(s))

parseFloat(s) ==
    LET neg  == s # <<>> /\ Head(s) = "-"
        body == IF neg THEN Tail(s) ELSE s
        pre  == DigitPrefix(body)
    IN  IF pre = <<>> THEN Null
        ELSE Some(IF neg THEN 0 - TextToInt(pre) ELSE TextToInt(pre))

\* x || null for a text
TextOrNull(s) == IF s = <<>> THEN Null ELSE Some(s)

\* x || null for a number
NumberOrNull(n) == IF n = 0 THEN Null ELSE Some(n)

(***************************************************************************)
(* The list filters of the admin views.                                    *)
(***************************************************************************)
UpperCase == <<"A", "B", "C", "W", "O">>
LowerCase == <<"a", "b", "c", "w", "o">>

\* String.prototype.toLowerCase
toLowerCase(s) ==
    [i \in 1..Len(s) |->
        IF \E k \in 1..Len(UpperCase) : UpperCase[k] = s[i]
        THEN LowerCase[CHOOSE k \in 1..Len(UpperCase) : UpperCase[k] = s[i]]
        ELSE s[i]]

\* String.prototype.includes
includes(s, sub) ==
    \E k \in 0..(Len(s) - Len(sub)) : SubSeq(s, k + 1, k + Len(sub)) = sub

\* Array.prototype.filter: the callback's results are test[1..Len(list)];
\* the elements it accepted are appended to a new array in index order
RECURSIVE filterFrom(_, _, _, _)
filterFrom(list, test, i, out) ==
    IF i > Len(list) THEN out
    ELSE filterFrom(list, test, i + 1, IF test[i] THEN Append(out, list[i]) ELSE out)

filter_reversed(list, test) ==
    LET out == filterFrom(list, test, 1, <<>>)
    IN  [i \in 1..Len(out) |-> out[Len(out) + 1 - i]]

filter(list, test) == filterFrom(list, test, 1, <<>>)

\* the value "all" of a filter select
All == "all"
AllText == <<"a", "l", "l">>

\* work-order management: const filtered = useMemo(...)
filtered(requests_, search_, statusFilter_, priorityFilter_) ==
    filter(requests_,
        [i \in 1..Len(requests_) |->
            LET r == requests_[i]
                matchesSearch ==
                    \/ search_ = <<>>
                    \/ \E f \in {r.title, r.requestor_name, r.department,
                                 IF IsNull(r.work_order_id) THEN <<>> ELSE Val(r.work_order_id)} :
                           includes(toLowerCase(f), toLowerCase(search_))
                matchesStatus == statusFilter_ = All \/ r.status = statusFilter_
                matchesPriority == priorityFilter_ = All \/ r.priority = priorityFilter_
            IN  matchesSearch /\ matchesStatus /\ matchesPriority])

\* dashboard: const filteredRequests = requests.filter(...)
filteredRequests(requests_, searchTerm, filterStatus, filterPriority) ==
    filter(requests_,
        [i \in 1..Len(requests_) |->
            LET req == requests_[i]
                matchesSearch ==
                    \/ includes(toLowerCase(req.title), toLowerCase(searchTerm))
                    \/ includes(toLowerCase(req.requestor_name), toLowerCase(searchTerm))
                    \/ includes(toLowerCase(req.department), toLowerCase(searchTerm))
                    \/ /\ ~IsNull(req.work_order_id)
                       /\ Val(req.work_order_id) # <<>>
                       /\ includes(toLowerCase(Val(req.work_order_id)), toLowerCase(searchTerm))
                matchesStatus == filterStatus = All \/ req.status = filterStatus
                matchesPriority == filterPriority = All \/ req.priority = filterPriority
            IN  matchesSearch /\ matchesStatus /\ matchesPriority])

\* calendar: const filteredRequests = workRequests.filter(...)
calFilteredRequests(workRequests_, filterDepartment_, filterStatus) ==
    filter(workRequests_,
        [i \in 1..Len(workRequests_) |->
            LET request == workRequests_[i]
                matchesDepartment ==
                    filterDepartment_ = AllText \/ request.department = filterDepartment_
                matchesStatus == filterStatus = All \/ request.status = filterStatus
            IN  matchesDepartment /\ matchesStatus])

\* rows a list can hold: the columns the filters read
ListRows ==
    <<[id |-> 1, title |-> <<"A", "b">>, requestor_name |-> <<"c">>, department |-> <<"B">>,
       work_order_id |-> Null, status |-> "pending", priority |-> "high"],
      [id |-> 2, title |-> <<"b">>, requestor_name |-> <<"a", "C">>, department |-> <<"A">>,
       work_order_id |-> Some(WOPrefix \o IntToText(1)), status |-> "approved", priority |-> "low"],
      [id |-> 3, title |-> <<"c", "a", "b">>, requestor_name |-> <<"B">>, department |-> <<"A">>,
       work_order_id |-> Some(WOPrefix \o IntToText(2)), status |-> "pending", priority |-> "low"],
      [id |-> 4, title |-> <<>>, requestor_name |-> <<"b", "b">>, department |-> <<"B">>,
       work_order_id |-> Some(WOPrefix \o IntToText(3)), status |-> "completed", priority |-> "high"]>>

\* the fetched lists: up to MaxListLen different rows in any order
ListInputs ==
    LET picks == UNION {[1..n -> 1..Len(ListRows)] : n \in 0..MaxListLen}
    IN  {[i \in 1..Len(s) |-> ListRows[s[i]]] :
            s \in {p \in picks : \A i, j \in 1..Len(p) : i # j => p[i] # p[j]}}

SearchInputs == {<<>>, <<"a">>, <<"A", "B">>, <<"w", "o">>, <<"c", "c">>}
StatusFilterInputs == {All, "pending", "approved"}
PriorityFilterInputs == {All, "high"}
DepartmentFilterInputs == {AllText, <<"A">>}

(***************************************************************************)
(* The public status check by e-mail address.                              *)
(***************************************************************************)
\* .order("created_at", { ascending: false }) / ORDER BY created_at DESC:
\* the rows of the set, the one created last first
RECURSIVE OrderByCreatedAtDesc(_)
OrderByCreatedAtDesc(rows) ==
    IF rows = {} THEN <<>>
    ELSE LET newest == CHOOSE r \in rows : \A q \in rows : q.created_at <= r.created_at
         IN  <<newest>> \o OrderByCreatedAtDesc(rows \ {newest})

\* from("work_requests").select("*").eq("requestor_email", value).order(...)
select_eq_requestor_email(table, value) ==
    OrderByCreatedAtDesc({table[i] : i \in {j \in DOMAIN table : table[j].requestor_email = value}})

\* the SQL function: lower(requestor_email) = lower(_email)
get_work_requests_by_email(table, _email) ==
    OrderByCreatedAtDesc({table[i] : i \in {j \in DOMAIN table :
                              toLowerCase(table[j].requestor_email) = toLowerCase(_email)}})

\* addresses typed into the request form and into the status check
EmailInputs == {<<"a", "@", "b">>, <<"A", "@", "b">>, <<"c", "@", "b">>}
EnteredEmailInputs == EmailInputs \cup {<<" ", "a", "@", "b">>}

\* the stored requests: up to MaxListLen rows, created in index order, each
\* with the address as typed into the request form
EmailTables ==
    {[i \in 1..Len(s) |-> [id |-> i, requestor_email |-> s[i], created_at |-> i]] :
        s \in UNION {[1..n -> EmailInputs] : n \in 0..MaxListLen}}

(***************************************************************************)
(* personal_tasks: row level security.  auth.uid() is NULL for a request   *)
(* without a signed-in user, and a policy expression that is NULL admits   *)
(* nothing.  The UPDATE policy has no WITH CHECK, so its USING expression  *)
(* is also applied to the row as updated.                                  *)
(***************************************************************************)
Users == {"u1", "u2"}

policy_select_using(uid, row) == ~IsNull(uid) /\ Val(uid) = row.user_id
policy_insert_check(uid, row) == ~IsNull(uid) /\ Val(uid) = row.user_id

policy_update_using_authenticated(uid, row) == ~IsNull(uid)

policy_update_using(uid, row) == ~IsNull(uid) /\ Val(uid) = row.user_id
policy_delete_using(uid, row) == ~IsNull(uid) /\ Val(uid) = row.user_id

\* select('*'): the rows the SELECT policy admits
rls_select(uid, table) ==
    LET seen == {i \in DOMAIN table : policy_select_using(uid, table[i])}
    IN  [i \in seen |-> table[i]]

\* insert([row]): refused when the new row fails the INSERT check
rls_insert(uid, table, id, row) ==
    IF policy_insert_check(uid, row)
    THEN [error |-> FALSE, table |-> Put(table, id, row)]
    ELSE [error |-> TRUE, table |-> table]

\* update(data).eq('id', id): rows the policy hides are not matched; a
\* matched row whose new version fails the policy is an error
rls_update(uid, table, id, data) ==
    IF id \notin DOMAIN table \/ ~policy_update_using(uid, table[id])
    THEN [error |-> FALSE, table |-> table]
    ELSE IF ~policy_update_using(uid, Merge(table[id], data))
         THEN [error |-> TRUE, table |-> table]
         ELSE [error |-> FALSE, table |-> Put(table, id, Merge(table[id], data))]

\* delete().eq('id', id): rows the policy hides are not matched
rls_delete(uid, table, id) ==
    IF id \notin DOMAIN table \/ ~policy_delete_using(uid, table[id])
    THEN [error |-> FALSE, table |-> table]
    ELSE [error |-> FALSE, table |-> [i \in DOMAIN table \ {id} |-> table[i]]]

\* the user_id handleSubmit sends when the component holds no session
FallbackUserId == "00000000-0000-0000-0000-000000000001"

TitleInputs == {<<" ">>, <<"a">>, <<"b", " ">>}
TaskStatusInputs == {"completed"}

\* Array.isArray(approval_checklist) ? approval_checklist : []
ReadChecklist(approval_checklist) ==
    IF ~IsNull(approval_checklist) /\ Val(approval_checklist).kind = "array"
    THEN Val(approval_checklist).items
    ELSE <<>>

\* the subscription callback of the work-order management screen on its list
\* prev: a new row is put in front, a changed row replaces the entries with
\* its id, a deleted row's entries are dropped
realtimeCallback(prev, payload) ==
    LET other(r) == r.id # payload.id
    IN  CASE payload.eventType = "INSERT" -> <<payload.new>> \o prev
          [] payload.eventType = "UPDATE" ->
               [i \in 1..Len(prev) |-> IF prev[i].id = payload.id THEN payload.new ELSE prev[i]]
          [] payload.eventType = "DELETE" -> SelectSeq(prev, other)

(***************************************************************************)
(* Pagination of the two admin tables.                                     *)
(***************************************************************************)
ITEMS_PER_PAGE == 10
itemsPerPage == 10

\* Math.ceil(a / b) for a >= 0, b > 0
Ceil(a, b) == (a + b - 1) \div b

\* Array.prototype.slice(start, end) for 0 <= start <= end
slice(array, start, end) ==
    SubSeq(array, start + 1, IF end < Len(array) THEN end ELSE Len(array))

\* work-order management: Math.max(1, Math.ceil(filtered.length / ITEMS_PER_PAGE))
totalPages(filtered_) ==
    LET n == Ceil(Len(filtered_), ITEMS_PER_PAGE) IN IF n < 1 THEN 1 ELSE n

paginated(filtered_, page_) ==
    slice(filtered_, (page_ - 1) * ITEMS_PER_PAGE, page_ * ITEMS_PER_PAGE)

\* dashboard: Math.ceil(filteredRequests.length / itemsPerPage)
dashTotalPages(filteredRequests_) == Ceil(Len(filteredRequests_), itemsPerPage)

paginatedRequests(filteredRequests_, currentPage) ==
    slice(filteredRequests_, (currentPage - 1) * itemsPerPage, currentPage * itemsPerPage)

\* work-order management: the page buttons
getPageNumbers(page_, totalPages_) ==
    LET maxVisible == 5
        start0 == IF page_ - (maxVisible \div 2) < 1 THEN 1 ELSE page_ - (maxVisible \div 2)
        end    == IF totalPages_ < start0 + maxVisible - 1 THEN totalPages_
                  ELSE start0 + maxVisible - 1
        start  == IF end - maxVisible + 1 < 1 THEN 1 ELSE end - maxVisible + 1
    IN  start..end

\* dashboard: Array.from({ length: Math.min(totalPages, 5) }, (_, i) => i + 1)
dashPageNumbers(totalPages_) == 1..(IF totalPages_ < 5 THEN totalPages_ ELSE 5)

(***************************************************************************)
(* The public request form (WorkRequestForm): its steps and fields.        *)
(***************************************************************************)
\* useState({ title: "", ..., priority: "medium", ... })
EmptyForm ==
    [title |-> <<>>, location |-> <<>>, department |-> <<>>, description |-> <<>>,
     priority |-> <<"m">>, requestedDate |-> <<>>, name |-> <<>>, email |-> <<>>]

\* the fields each step shows; the review step shows none
StepFields(step) ==
    CASE step = 0 -> {"title", "location", "department", "description"}
      [] step = 1 -> {"priority"}
      [] step = 2 -> {"requestedDate", "name", "email"}
      [] OTHER    -> {}

\* what can be entered in a field: nothing or a text; a priority card
FieldInputs(field) == IF field = "priority" THEN {<<"m">>, <<"h">>} ELSE {<<>>, <<"A">>}

\* !!(a && b && ...) for strings
canGoNext_title_unchecked(currentStep_, formData_) ==
    CASE currentStep_ = 0 -> /\ formData_.location # <<>>
                            /\ formData_.department # <<>>
                            /\ formData_.description # <<>>
      [] currentStep_ = 1 -> formData_.priority # <<>>
      [] currentStep_ = 2 -> /\ formData_.requestedDate # <<>>
                            /\ formData_.name # <<>>
                            /\ formData_.email # <<>>
      [] OTHER            -> TRUE

canGoNext(currentStep_, formData_) ==
    CASE currentStep_ = 0 -> /\ formData_.title # <<>>
                            /\ formData_.location # <<>>
                            /\ formData_.department # <<>>
                            /\ formData_.description # <<>>
      [] currentStep_ = 1 -> formData_.priority # <<>>
      [] currentStep_ = 2 -> /\ formData_.requestedDate # <<>>
                            /\ formData_.name # <<>>
                            /\ formData_.email # <<>>
      [] OTHER            -> TRUE

\* the row handleSubmit sends
InsertPayload(formData_) ==
    [requestor_name |-> formData_.name, requestor_email |-> formData_.email,
     location |-> formData_.location, department |-> toLowerCase(formData_.department),
     title |-> formData_.title, description |-> formData_.description,
     priority |-> formData_.priority, requested_date |-> formData_.requestedDate]

(***************************************************************************)
(* Analytics (AnalyticsPage.fetchAnalyticsData).  Instants are counted in  *)
(* hours, day d beginning at the instant 24 * d; requested_date is a day,  *)
(* completed_at an instant, created_at is kept as the row's age in days.   *)
(***************************************************************************)
HoursPerDay == 24

\* timeRange === "30days" ? 30 : timeRange === "3months" ? 90 : ... : 365
RangeDays(range) ==
    CASE range = "30days"  -> 30
      [] range = "3months" -> 90
      [] range = "6months" -> 180
      [] OTHER             -> 365

\* .gte('created_at', startDate).lte('created_at', endDate)
RowsInRange(rows_, range) ==
    LET inRange(r) == r.age <= RangeDays(range) IN SelectSeq(rows_, inRange)

\* Math.ceil(a / b) for b > 0 and any integer a
MathCeil(a, b) == IF a >= 0 THEN (a + b - 1) \div b ELSE 0 - ((0 - a) \div b)

\* Math.round(100 * a / b) for a >= 0, b > 0
RoundedPercent(a, b) == (200 * a + b) \div (2 * b)

\* parseISO(requested_date): the beginning of that day
parseISODate(day) == HoursPerDay * day

\* Math.ceil((completed_at - requested_date) / one day)
diffDays(req) == MathCeil(Val(req.completed_at) - parseISODate(req.requested_date), HoursPerDay)

\* the branch of if (diffDays === 0) ... else if (diffDays > 0) ... else ...
Performance(req) ==
    IF diffDays(req) = 0 THEN "onTime" ELSE IF diffDays(req) > 0 THEN "late" ELSE "early"

completedRequests(requests_) ==
    LET completed(req) == req.status = "completed" IN SelectSeq(requests_, completed)

onTimeCount(requests_) ==
    Cardinality({ i \in 1..Len(completedRequests(requests_)) :
                    LET req == completedRequests(requests_)[i]
                    IN  ~IsNull(req.completed_at) /\ Performance(req) = "onTime" })

\* setOnTimeRate(completedRequests.length > 0 ? Math.round(...) : 0)
OnTimeRate(requests_) ==
    IF Len(completedRequests(requests_)) > 0
    THEN RoundedPercent(onTimeCount(requests_), Len(completedRequests(requests_)))
    ELSE 0

(***************************************************************************)
(* State.                                                                  *)
(***************************************************************************)
VARIABLES
    work_requests,          \* the work_requests table: id -> row
    pending_work_requests,  \* ids held by the pending_work_requests table
    approved_work,          \* request ids copied into approved_work
    requests,               \* work-order management: the fetched rows
    dashRequests,           \* dashboard: the fetched rows
    workRequests,           \* calendar: the fetched rows
    pendingChanges,         \* calendar: id -> new date, not yet saved
    pendingDateChanges,     \* calendar: the moves, in the order made
    dateChangeReason,       \* calendar: the reason typed for the moves
    showReasonDialog,       \* calendar: the reason dialog is open
    workOrderId,            \* public form: the code shown after submitting
    isSubmitted,            \* public form: the success screen is shown
    totalRequests,          \* analytics: the number of requests displayed
    lastOp,                 \* the handler that ran last and what it did
    steps,                  \* number of handlers run
    fetchedList,            \* an admin view: the fetched rows, in fetch order
    search,                 \* an admin view: the search text
    statusFilter,           \* an admin view: the status select
    priorityFilter,         \* an admin view: the priority select
    filterDepartment,       \* calendar: the department select
    shown,                  \* an admin view: the filtered list it renders
    filterView,             \* the view that computed the filtered list
    rowsWritten,            \* rows of work_requests inserted or updated so far
    posted,                 \* requests handed to net.http_post so far
    lastPost,               \* the body of the latest of them
    lastWrite,              \* the latest row write: operation, id, old row
    personal_tasks,         \* the personal_tasks table: id -> row
    nextTaskId,             \* number of personal tasks inserted so far, plus one
    authUid,                \* auth.uid() of the client's requests
    session,                \* task board: the session the component holds
    tasks,                  \* task board: the fetched rows
    editingTask,            \* task board: the task being edited
    taskOp,                 \* the dialog save made last ("other": none) and its outcome
    emailTable,             \* status check: the stored requests, id -> row
    email,                  \* status check: the address entered
    statusRequests,         \* status check: the requests listed
    hasSearched,            \* status check: who answered last, or "no", or "failed"
    inFlight,               \* per database session: the row inserted, not yet committed
    feed,                   \* change events emitted and not yet delivered, oldest first
    responses,              \* RPC calls of the screen whose response is not yet handled
    callTable,              \* one status update: the table it is applied to
    call,                   \* one status update: the row, target status and inputs
    clientTable,            \* the table after the dashboard's update (Null: not run)
    serverTable,            \* the table after update_work_request_status (Null: not run)
    legacyTable,            \* the table after the six-argument overload (Null: not run)
    approvedWith,           \* the checklist of the latest approval reported successful
    saveOf,                 \* calendar: the pending date changes the Save just run had
    saveLog,                \* calendar: the requests the Save just run issued, in order
    dbRows,                 \* change feed: the rows of work_requests, newest first
    dbNextId,               \* change feed: the id the next inserted row gets
    fetchCall,              \* change feed: the state of the fetchCall started on mount
    changeQueue,            \* change feed: the undelivered postgres_changes payloads
    rowList,                \* change feed: the rows the screen holds, in order
    pageScreen,             \* pagination: the admin screen that is open
    pageRows,               \* pagination: the rows the screen holds
    pageFilter,             \* pagination: the status filter
    page,                   \* pagination: page (currentPage on the dashboard)
    currentStep,            \* public form: the step shown
    formData,               \* public form: the field values
    inserted,               \* public form: the payload of the latest insert (Null: none)
    analyticsTable,         \* analytics: the rows of work_requests
    timeRange,              \* analytics: the selected time range
    analyticsCalls,         \* analytics: the fetches in flight
    latestFailed,           \* analytics: the fetch for the selected range has failed
    shownFrom,              \* analytics: the rows the shown figures were computed from
    onTimeRate              \* analytics: the on-time rate shown

backend == <<work_requests, pending_work_requests, approved_work>>
womVars == <<requests>>
dashVars == <<dashRequests>>
calVars == <<workRequests, pendingChanges, pendingDateChanges, dateChangeReason, showReasonDialog>>
formVars == <<workOrderId, isSubmitted>>
mainVars == <<work_requests, pending_work_requests, approved_work, requests, dashRequests,
              workRequests, pendingChanges, pendingDateChanges, dateChangeReason,
              showReasonDialog, workOrderId, isSubmitted, totalRequests, lastOp, steps>>
filterVars == <<fetchedList, search, statusFilter, priorityFilter, filterDepartment,
                shown, filterView>>
webhookVars == <<rowsWritten, posted, lastPost, lastWrite>>
taskVars == <<personal_tasks, nextTaskId, authUid, session, tasks, editingTask, taskOp>>
statusVars == <<emailTable, email, statusRequests, hasSearched>>
insertVars == <<inFlight>>
feedVars == <<feed, responses>>
callVars == <<callTable, call, clientTable, serverTable, legacyTable>>
checklistVars == <<approvedWith>>
calendarVars == <<saveOf, saveLog>>
listVars == <<dbRows, dbNextId, fetchCall, changeQueue, rowList>>
pageVars == <<pageScreen, pageRows, pageFilter, page>>
wizardVars == <<currentStep, formData, inserted>>
analyticsVars == <<analyticsTable, timeRange, analyticsCalls, latestFailed, shownFrom, onTimeRate>>
otherVars == <<calendarVars, listVars, pageVars, wizardVars, analyticsVars>>
auxVars == <<filterVars, webhookVars, taskVars, statusVars, insertVars, feedVars, callVars,
             checklistVars, otherVars>>
vars == <<mainVars, auxVars>>

EmptyTable == [i \in {} |-> Null]

\* what a handler did: the row it acted on, the reason entered for a date
\* change (Null when the handler was not asked to change a date), the
\* backend calls it made, those that failed, and the toasts it showed
Op(name, id, reason, calls, failed, toasts) ==
    [op |-> name, id |-> id, reason |-> reason, calls |-> calls, failed |-> failed, toasts |-> toasts]

\* the parts of the state that are studied on their own are at rest while
\* the work-order lifecycle runs, and the lifecycle is at rest while one of
\* them runs
FilterIdle ==
    /\ fetchedList = <<>>
    /\ search = <<>>
    /\ statusFilter = All
    /\ priorityFilter = All
    /\ filterDepartment = AllText
    /\ shown = <<>>
    /\ filterView = "none"

WebhookIdle ==
    /\ rowsWritten = 0
    /\ posted = 0
    /\ lastPost = Null
    /\ lastWrite = Null

TaskIdle ==
    /\ personal_tasks = EmptyTable
    /\ nextTaskId = 1
    /\ authUid = Null
    /\ session = Null
    /\ tasks = EmptyTable
    /\ editingTask = Null
    /\ taskOp = [op |-> "none", error |-> FALSE]

StatusIdle ==
    /\ emailTable = <<>>
    /\ email = <<>>
    /\ statusRequests = <<>>
    /\ hasSearched = "no"

\* database sessions that serve the submissions of the public form
Sessions == {"s1", "s2"}

InsertIdle == inFlight = [s \in Sessions |-> Null]

FeedIdle == feed = <<>> /\ responses = {}

NoCall ==
    [id |-> 0, status |-> "pending", user |-> Null, reason |-> Null, hours |-> Null,
     notes |-> Null, newDate |-> Null, dateReason |-> Null]

CallIdle ==
    /\ callTable = EmptyTable
    /\ call = NoCall
    /\ clientTable = Null
    /\ serverTable = Null
    /\ legacyTable = Null

ChecklistIdle == approvedWith = Null

CalendarIdle == saveOf = <<>> /\ saveLog = <<>>

ListIdle ==
    /\ dbRows = <<>>
    /\ dbNextId = 1
    /\ fetchCall = [state |-> "idle", data |-> <<>>]
    /\ changeQueue = <<>>
    /\ rowList = <<>>

PageIdle ==
    /\ pageScreen = "wom"
    /\ pageRows = <<>>
    /\ pageFilter = All
    /\ page = 1

WizardIdle ==
    /\ currentStep = 0
    /\ formData = EmptyForm
    /\ inserted = Null

AnalyticsIdle ==
    /\ analyticsTable = <<>>
    /\ timeRange = "6months"
    /\ analyticsCalls = {}
    /\ latestFailed = FALSE
    /\ shownFrom = Null
    /\ onTimeRate = 0

OtherIdle == CalendarIdle /\ ListIdle /\ PageIdle /\ WizardIdle /\ AnalyticsIdle

AuxIdle ==
    /\ FilterIdle
    /\ WebhookIdle
    /\ TaskIdle
    /\ StatusIdle
    /\ InsertIdle
    /\ FeedIdle
    /\ CallIdle
    /\ ChecklistIdle

Tick == steps < MaxSteps /\ steps' = steps + 1 /\ UNCHANGED auxVars

(***************************************************************************)
(* Public form (WorkRequestForm.handleSubmit).                             *)
(***************************************************************************)
FormSubmit(date) ==
    /\ Tick
    /\ ~isSubmitted
    /\ Cardinality(DOMAIN work_requests) < MaxRequests
    /\ \E ok \in BOOLEAN :
         IF ok
         THEN LET id  == Cardinality(DOMAIN work_requests) + 1
                  row == set_work_order_id(work_requests, NewRow(date, Null))
              IN  /\ work_requests' = Put(work_requests, id, row)
                  /\ workOrderId' = IF IsNull(row.work_order_id) THEN <<>> ELSE Val(row.work_order_id)
                  /\ isSubmitted' = TRUE
                  /\ lastOp' = Op("form_submit", id, Null, {"insert"}, {}, {})
         ELSE /\ UNCHANGED <<work_requests, workOrderId, isSubmitted>>
              /\ lastOp' = Op("form_submit", 0, Null, {"insert"}, {"insert"}, {"destructive"})
    /\ UNCHANGED <<pending_work_requests, approved_work, womVars, dashVars, calVars, totalRequests>>

\* "Submit another" on the success screen
FormSubmitAnother ==
    /\ Tick
    /\ isSubmitted
    /\ isSubmitted' = FALSE
    /\ lastOp' = Op("form_reset", 0, Null, {}, {}, {})
    /\ UNCHANGED <<backend, womVars, dashVars, calVars, workOrderId, totalRequests>>

(***************************************************************************)
(* Work-order management screen.                                           *)
(***************************************************************************)
\* the handlers ActionButtons offers for a row of the given status
ActionButtons_pause_on_approved(status) ==
    CASE status = "pending"     -> {"approve", "reject"}
      [] status = "approved"    -> {"start", "pause"}
      [] status = "in_progress" -> {"complete", "pause"}
      [] status = "paused"      -> {"resume"}
      [] OTHER                  -> {}

ActionButtons(status) ==
    CASE status = "pending"     -> {"approve", "reject"}
      [] status = "approved"    -> {"start"}
      [] status = "in_progress" -> {"complete", "pause"}
      [] status = "paused"      -> {"resume"}
      [] OTHER                  -> {}

Offered(list, id, action) == id \in DOMAIN list /\ action \in ActionButtons(list[id].status)

\* setRequests(prev => prev.map(r => r.id === id ? { ...r, ...changes } : r))
LocalMerge(list, id, changes) ==
    [i \in DOMAIN list |-> IF i = id THEN Merge(list[i], changes) ELSE list[i]]

\* fetchRequests replaces the list by the table.  The screen's change feed
\* (postgres_changes), which rewrites single rows of the list as events
\* arrive, is not an action of the lifecycle specification, where the list
\* changes by fetch and by the handlers' own updates; SpecFeed has it.
fetchRequestsBody ==
    /\ \E ok \in BOOLEAN :
         IF ok
         THEN /\ requests' = work_requests
              /\ lastOp' = Op("wom_fetch", 0, Null, {"select"}, {}, {})
         ELSE /\ UNCHANGED requests
              /\ lastOp' = Op("wom_fetch", 0, Null, {"select"}, {"select"}, {"destructive"})
    /\ UNCHANGED <<backend, dashVars, calVars, formVars, totalRequests>>

fetchRequests == Tick /\ fetchRequestsBody

handlePause(id) ==
    /\ Tick
    /\ Offered(requests, id, "pause")
    /\ \E ok \in BOOLEAN :
         IF ok
         THEN /\ work_requests' = update_work_request_status(work_requests, id, "paused",
                                                             Null, Null, Null, Null, Null)
              /\ requests' = LocalMerge(requests, id, [status |-> "paused"])
              /\ lastOp' = Op("pause", id, Null, {"rpc"}, {}, {"default"})
         ELSE /\ UNCHANGED <<work_requests, requests>>
              /\ lastOp' = Op("pause", id, Null, {"rpc"}, {"rpc"}, {"destructive"})
    /\ UNCHANGED <<pending_work_requests, approved_work, dashVars, calVars, formVars, totalRequests>>

handleResume(id) ==
    /\ Tick
    /\ Offered(requests, id, "resume")
    /\ \E ok \in BOOLEAN :
         IF ok
         THEN /\ work_requests' = update_work_request_status(work_requests, id, "in_progress",
                                                             Null, Null, Null, Null, Null)
              /\ requests' = LocalMerge(requests, id, [status |-> "in_progress"])
              /\ lastOp' = Op("resume", id, Null, {"rpc"}, {}, {"default"})
         ELSE /\ UNCHANGED <<work_requests, requests>>
              /\ lastOp' = Op("resume", id, Null, {"rpc"}, {"rpc"}, {"destructive"})
    /\ UNCHANGED <<pending_work_requests, approved_work, dashVars, calVars, formVars, totalRequests>>

handleStartWork(id) ==
    /\ Tick
    /\ Offered(requests, id, "start")
    /\ \E ok \in BOOLEAN :
         IF ok
         THEN /\ work_requests' = start_work(work_requests, id, "Admin")
              /\ requests' = LocalMerge(requests, id,
                     [status |-> "in_progress", started_at |-> Some(Now), started_by |-> Some("Admin")])
              /\ lastOp' = Op("start", id, Null, {"rpc"}, {}, {"default"})
         ELSE /\ UNCHANGED <<work_requests, requests>>
              /\ lastOp' = Op("start", id, Null, {"rpc"}, {"rpc"}, {"destructive"})
    /\ UNCHANGED <<pending_work_requests, approved_work, dashVars, calVars, formVars, totalRequests>>

\* ApprovalDialog.handleSubmit.  newDate is the value of the date input,
\* dateReason the text of the reason box, checklistItems the checklist.
ApprovalReasonMissing(dateChanged, dateReason) == dateChanged /\ IsBlank(dateReason)

ApprovalSubmitBody(id, newDate, dateReason, checklistItems) ==
    /\ Offered(requests, id, "approve")
    /\ LET approveTarget == requests[id]
           dateChanged   == newDate # approveTarget.requested_date
           entered       == IF dateChanged THEN Some(dateReason) ELSE Null
       IN  IF ApprovalReasonMissing(dateChanged, dateReason)
           THEN /\ lastOp' = Op("wom_approve", id, entered, {}, {}, {"destructive"})
                /\ UNCHANGED <<backend, requests>>
           ELSE \E rpcOk \in BOOLEAN, listOk \in BOOLEAN :
                LET viaStatus == update_work_request_status(work_requests, id, "approved",
                                     Some("Admin"), Some(Trim(dateReason)), Null, Null, Some(newDate))
                    viaApprove == approve_work_request(work_requests, pending_work_requests,
                                                       approved_work, id)
                    \* a date the database cannot cast makes the call fail
                    rpcError == IF dateChanged THEN ~rpcOk \/ newDate \notin Dates
                                ELSE ~rpcOk \/ viaApprove.error
                    afterRpc == IF dateChanged THEN viaStatus ELSE viaApprove.work_requests
                    saveList == checklistItems # <<>>
                    calls    == {"rpc"} \cup (IF saveList THEN {"checklist"} ELSE {})
                IN  IF rpcError
                    THEN /\ lastOp' = Op("wom_approve", id, entered, {"rpc"}, {"rpc"}, {"destructive"})
                         /\ UNCHANGED <<backend, requests>>
                    ELSE /\ (saveList \/ listOk)
                         /\ work_requests' =
                              IF saveList /\ listOk
                              THEN TableUpdate(afterRpc, id,
                                       [approval_checklist |-> Some([kind |-> "array", items |-> checklistItems])])
                              ELSE afterRpc
                         /\ pending_work_requests' =
                              IF dateChanged THEN pending_work_requests
                              ELSE viaApprove.pending_work_requests
                         /\ approved_work' =
                              IF dateChanged THEN approved_work ELSE viaApprove.approved_work
                         /\ requests' = LocalMerge(requests, id,
                              [status |-> "approved", approved_by |-> Some("Admin"),
                               approved_at |-> Some(Now),
                               requested_date |-> IF dateChanged THEN newDate
                                                  ELSE requests[id].requested_date,
                               approval_checklist |->
                                   IF saveList
                                   THEN Some([kind |-> "array", items |-> checklistItems])
                                   ELSE requests[id].approval_checklist])
                         /\ lastOp' = Op("wom_approve", id, entered, calls,
                                         IF saveList /\ ~listOk THEN {"checklist"} ELSE {},
                                         {"default"})
    /\ UNCHANGED <<dashVars, calVars, formVars, totalRequests>>

ApprovalSubmit(id, newDate, dateReason, checklistItems) == Tick /\ ApprovalSubmitBody(id, newDate, dateReason, checklistItems)

\* RejectDialog.handleSubmit
RejectReasonTooShort_never(reason) == FALSE

RejectReasonTooShort(reason) == Len(Trim(reason)) < MinReasonLen

RejectSubmit(id, reason) ==
    /\ Tick
    /\ Offered(requests, id, "reject")
    /\ IF RejectReasonTooShort(reason)
       THEN /\ lastOp' = Op("wom_reject", id, Null, {}, {}, {"destructive"})
            /\ UNCHANGED <<work_requests, requests>>
       ELSE \E ok \in BOOLEAN :
            IF ok
            THEN /\ work_requests' = update_work_request_status(work_requests, id, "rejected",
                                         Some("Admin"), Some(Trim(reason)), Null, Null, Null)
                 /\ requests' = LocalMerge(requests, id,
                        [status |-> "rejected", rejected_by |-> Some("Admin"),
                         rejected_at |-> Some(Now), rejected_reason |-> Some(Trim(reason))])
                 /\ lastOp' = Op("wom_reject", id, Null, {"rpc"}, {}, {"default"})
            ELSE /\ UNCHANGED <<work_requests, requests>>
                 /\ lastOp' = Op("wom_reject", id, Null, {"rpc"}, {"rpc"}, {"destructive"})
    /\ UNCHANGED <<pending_work_requests, approved_work, dashVars, calVars, formVars, totalRequests>>

\* CompleteWorkDialog.handleSubmit of the work-order management screen
CompleteHoursInvalid(hours) == hours <= 0

CompleteSubmit(id, hours, notes) ==
    /\ Tick
    /\ Offered(requests, id, "complete")
    /\ IF CompleteHoursInvalid(hours)
       THEN /\ lastOp' = Op("wom_complete", id, Null, {}, {}, {"destructive"})
            /\ UNCHANGED <<work_requests, requests>>
       ELSE \E ok \in BOOLEAN :
            IF ok
            THEN /\ work_requests' = complete_work(work_requests, id, "Admin", hours,
                                                   TextOrNull(Trim(notes)))
                 /\ requests' = LocalMerge(requests, id,
                        [status |-> "completed", completed_by |-> Some("Admin"),
                         completed_at |-> Some(Now), actual_hours |-> Some(hours),
                         completion_notes |-> TextOrNull(Trim(notes))])
                 /\ lastOp' = Op("wom_complete", id, Null, {"rpc"}, {}, {"default"})
            ELSE /\ UNCHANGED <<work_requests, requests>>
                 /\ lastOp' = Op("wom_complete", id, Null, {"rpc"}, {"rpc"}, {"destructive"})
    /\ UNCHANGED <<pending_work_requests, approved_work, dashVars, calVars, formVars, totalRequests>>

(***************************************************************************)
(* Admin dashboard.                                                        *)
(***************************************************************************)
\* the buttons a dashboard row shows for its status
DashButtons(status) ==
    CASE status = "pending"     -> {"approve", "reject"}
      [] status = "approved"    -> {"start"}
      [] status = "in_progress" -> {"complete"}
      [] OTHER                  -> {}

DashOffered(id, action) ==
    id \in DOMAIN dashRequests /\ action \in DashButtons(dashRequests[id].status)

\* the updateData object updateWorkRequestStatus builds.  newDate and
\* dateReason are Null when the option is undefined; checklist is the
\* item list, Null when undefined.
Truthy(text) == ~IsNull(text) /\ Val(text) # <<>>

DashUpdateData(status, reason, hours, notes, newDate, dateReason, checklist) ==
    LET base == [status |-> status]
        date == IF ~IsNull(newDate) /\ Truthy(dateReason)
                THEN [requested_date |-> Val(newDate), date_changed_reason |-> dateReason]
                ELSE IF ~IsNull(newDate)
                THEN [requested_date |-> Val(newDate)]
                ELSE EmptyTable
        list == IF ~IsNull(checklist) /\ status = "approved"
                THEN [approval_checklist |-> Some([kind |-> "string", items |-> Val(checklist)])]
                ELSE EmptyTable
        own  == CASE status = "approved" ->
                       [approved_by |-> Some("admin-dashboard"), approved_at |-> Some(Now)]
                  [] status = "rejected" ->
                       [rejected_by |-> Some("admin-dashboard"), rejected_at |-> Some(Now),
                        rejected_reason |-> IF Truthy(reason) THEN reason ELSE Null]
                  [] status = "in_progress" ->
                       [started_by |-> Some("admin-dashboard"), started_at |-> Some(Now)]
                  [] status = "completed" ->
                       [completed_by |-> Some("admin-dashboard"), completed_at |-> Some(Now),
                        actual_hours |-> IF IsNull(hours) THEN Null ELSE NumberOrNull(Val(hours)),
                        completion_notes |-> IF Truthy(notes) THEN notes ELSE Null]
                  [] OTHER -> EmptyTable
    IN  [f \in DOMAIN base \cup DOMAIN date \cup DOMAIN list \cup DOMAIN own |->
            IF f \in DOMAIN own THEN own[f]
            ELSE IF f \in DOMAIN list THEN list[f]
            ELSE IF f \in DOMAIN date THEN date[f]
            ELSE base[f]]

\* updateWorkRequestStatus: the update, its toast, then fetchWorkRequests
updateWorkRequestStatus(name, id, entered, updateData) ==
    \E ok \in BOOLEAN, fetchOk \in BOOLEAN :
       IF ok
       THEN /\ work_requests' = TableUpdate(work_requests, id, updateData)
            /\ dashRequests' = IF fetchOk THEN work_requests' ELSE dashRequests
            /\ lastOp' = Op(name, id, entered, {"update", "select"},
                            IF fetchOk THEN {} ELSE {"select"},
                            IF fetchOk THEN {"default"} ELSE {"default", "destructive"})
       ELSE /\ fetchOk
            /\ UNCHANGED <<work_requests, dashRequests>>
            /\ lastOp' = Op(name, id, entered, {"update"}, {"update"}, {"destructive"})

fetchWorkRequests ==
    /\ Tick
    /\ \E ok \in BOOLEAN :
         IF ok
         THEN /\ dashRequests' = work_requests
              /\ lastOp' = Op("dash_fetch", 0, Null, {"select"}, {}, {})
         ELSE /\ UNCHANGED dashRequests
              /\ lastOp' = Op("dash_fetch", 0, Null, {"select"}, {"select"}, {"destructive"})
    /\ UNCHANGED <<backend, womVars, calVars, formVars, totalRequests>>

\* ApprovalDialog.onSubmit of the dashboard.  selectedDate is the picker's
\* value: a date, or Null once the selected day was clicked away.
DashReasonMissing(dateChanged, reason) == dateChanged /\ IsBlank(reason)

approveRequestBody(id, selectedDate, reason, checklistItems) ==
    /\ DashOffered(id, "approve")
    /\ LET request     == dashRequests[id]
           dateChanged == ~IsNull(selectedDate) /\ Val(selectedDate) # request.requested_date
           entered     == IF dateChanged THEN Some(reason) ELSE Null
       IN  IF DashReasonMissing(dateChanged, reason)
           THEN /\ lastOp' = Op("dash_approve", id, entered, {}, {}, {})
                /\ UNCHANGED <<work_requests, dashRequests>>
           ELSE updateWorkRequestStatus("dash_approve", id, entered,
                    DashUpdateData("approved", Null, Null, Null, selectedDate,
                                   IF dateChanged THEN Some(reason) ELSE Null,
                                   IF checklistItems # <<>> THEN Some(checklistItems) ELSE Null))
    /\ UNCHANGED <<pending_work_requests, approved_work, womVars, calVars, formVars, totalRequests>>

approveRequest(id, selectedDate, reason, checklistItems) == Tick /\ approveRequestBody(id, selectedDate, reason, checklistItems)

rejectRequest(id) ==
    /\ Tick
    /\ DashOffered(id, "reject")
    /\ updateWorkRequestStatus("dash_reject", id, Null,
           DashUpdateData("rejected", Some(RejectedByAdmin), Null, Null, Null, Null, Null))
    /\ UNCHANGED <<pending_work_requests, approved_work, womVars, calVars, formVars, totalRequests>>

startWork(id) ==
    /\ Tick
    /\ DashOffered(id, "start")
    /\ updateWorkRequestStatus("dash_start", id, Null,
           DashUpdateData("in_progress", Null, Null, Null, Null, Null, Null))
    /\ UNCHANGED <<pending_work_requests, approved_work, womVars, calVars, formVars, totalRequests>>

\* CompleteWorkDialog.handleSubmit of the dashboard: isNaN(hours) || hours <= 0
DashHoursInvalid_nan_only(hours) == IsNull(hours)

DashHoursInvalid(hours) == IsNull(hours) \/ Val(hours) <= 0

completeWork(id, actualHours, completionNotes) ==
    /\ Tick
    /\ DashOffered(id, "complete")
    /\ LET hours == parseFloat(actualHours)
       IN  IF DashHoursInvalid(hours)
           THEN /\ lastOp' = Op("dash_complete", id, Null, {}, {}, {"destructive"})
                /\ UNCHANGED <<work_requests, dashRequests>>
           ELSE updateWorkRequestStatus("dash_complete", id, Null,
                    DashUpdateData("completed", Null, hours, Some(completionNotes), Null, Null, Null))
    /\ UNCHANGED <<pending_work_requests, approved_work, womVars, calVars, formVars, totalRequests>>

(***************************************************************************)
(* Calendar.                                                               *)
(***************************************************************************)
calFetchWorkRequests ==
    /\ Tick
    /\ \E ok \in BOOLEAN :
         IF ok
         THEN /\ workRequests' = work_requests
              /\ lastOp' = Op("cal_fetch", 0, Null, {"select"}, {}, {})
         ELSE /\ UNCHANGED workRequests
              /\ lastOp' = Op("cal_fetch", 0, Null, {"select"}, {"select"}, {"destructive"})
    /\ UNCHANGED <<backend, womVars, dashVars, pendingChanges, pendingDateChanges,
                   dateChangeReason, showReasonDialog, formVars, totalRequests>>

\* work_order_id || `WO-${id.slice(-4)}`
DisplayCode(id, row) ==
    IF IsNull(row.work_order_id) \/ Val(row.work_order_id) = <<>>
    THEN WOPrefix \o <<"i", "d">> \o IntToText(id)
    ELSE Val(row.work_order_id)

IndexOfChange(changes, id) == { i \in 1..Len(changes) : changes[i].id = id }

\* handleDrop of a dragged work order on the day targetDate
handleDropBody(id, targetDate) ==
    /\ ~showReasonDialog
    /\ id \in DOMAIN workRequests
    /\ LET draggedItem    == workRequests[id]
           newDate        == targetDate
           currentDateStr == IF id \in DOMAIN pendingChanges THEN pendingChanges[id]
                             ELSE draggedItem.requested_date
           newChange      == [id |-> id, oldDate |-> draggedItem.requested_date,
                              newDate |-> newDate, workOrderId |-> DisplayCode(id, draggedItem)]
       IN  IF newDate # currentDateStr
           THEN /\ pendingDateChanges' =
                     IF IndexOfChange(pendingDateChanges, id) # {}
                     THEN [i \in 1..Len(pendingDateChanges) |->
                              IF pendingDateChanges[i].id = id THEN newChange
                              ELSE pendingDateChanges[i]]
                     ELSE Append(pendingDateChanges, newChange)
                /\ pendingChanges' = Put(pendingChanges, id, newDate)
                /\ showReasonDialog' =
                     IF dateChangeReason = <<>> /\ Len(pendingDateChanges) = 0
                     THEN TRUE ELSE showReasonDialog
                /\ lastOp' = Op("cal_drop", id, Null, {}, {}, {"default"})
           ELSE /\ UNCHANGED <<pendingDateChanges, pendingChanges, showReasonDialog>>
                /\ lastOp' = Op("cal_drop", id, Null, {}, {}, {})
    /\ UNCHANGED <<backend, womVars, dashVars, workRequests, dateChangeReason, formVars, totalRequests>>

handleDrop(id, targetDate) == Tick /\ handleDropBody(id, targetDate)

\* "Save Reason" in the reason dialog; text is what the box holds by then
handleReasonDialogSaveBody(text) ==
    /\ showReasonDialog
    /\ dateChangeReason' = text
    /\ IF IsBlank(text)
       THEN /\ UNCHANGED showReasonDialog
            /\ lastOp' = Op("cal_reason_save", 0, Null, {}, {}, {"destructive"})
       ELSE /\ showReasonDialog' = FALSE
            /\ lastOp' = Op("cal_reason_save", 0, Null, {}, {}, {})
    /\ UNCHANGED <<backend, womVars, dashVars, workRequests, pendingChanges, pendingDateChanges,
                   formVars, totalRequests>>

handleReasonDialogSave(text) == Tick /\ handleReasonDialogSaveBody(text)

handleReasonDialogCancelBody ==
    /\ showReasonDialog
    /\ pendingChanges' = EmptyTable
    /\ pendingDateChanges' = <<>>
    /\ dateChangeReason' = <<>>
    /\ showReasonDialog' = FALSE
    /\ lastOp' = Op("cal_reason_cancel", 0, Null, {}, {}, {"default"})
    /\ UNCHANGED <<backend, womVars, dashVars, workRequests, formVars, totalRequests>>

handleReasonDialogCancel == Tick /\ handleReasonDialogCancelBody

\* the dialog closed with Escape or a click outside (onOpenChange); text is
\* what the box holds by then
reasonDialogDismissBody(text) ==
    /\ showReasonDialog
    /\ dateChangeReason' = text
    /\ showReasonDialog' = FALSE
    /\ lastOp' = Op("cal_reason_dismiss", 0, Null, {}, {}, {})
    /\ UNCHANGED <<backend, womVars, dashVars, workRequests, pendingChanges, pendingDateChanges,
                   formVars, totalRequests>>

reasonDialogDismiss(text) == Tick /\ reasonDialogDismissBody(text)

\* the first k updates of handleSaveChanges, in the order of the pending map
RECURSIVE ApplyUpdates(_, _, _, _)
ApplyUpdates(table, changes, k, reason) ==
    IF k = 0 THEN table
    ELSE LET before == ApplyUpdates(table, changes, k - 1, reason)
             c      == changes[k]
         IN  TableUpdate(before, c.id,
                 [requested_date |-> c.newDate, date_changed_reason |-> reason])

\* the requests one run of handleSaveChanges issues, in order, when the first k
\* updates succeed: the updates up to the first failure, which throws, and
\* then, all updates written, one invocation of notify-date-change for each
\* pending date change whose work order is in the list
SaveLog_notify_in_loop(changes, list, k, notifyOk) ==
    LET n == Len(changes)
        RECURSIVE Upto(_)
        Upto(i) ==
            IF i = 0 THEN <<>>
            ELSE Upto(i - 1)
                 \o <<[kind |-> "update", id |-> changes[i].id, ok |-> i <= k]>>
                 \o (IF i <= k /\ changes[i].id \in DOMAIN list
                     THEN <<[kind |-> "notify", id |-> changes[i].id, ok |-> notifyOk]>>
                     ELSE <<>>)
    IN  Upto(IF k < n THEN k + 1 ELSE n)

SaveLog(changes, list, k, notifyOk) ==
    LET n == Len(changes)
        updates == [i \in 1..(IF k < n THEN k + 1 ELSE n) |->
                       [kind |-> "update", id |-> changes[i].id, ok |-> i <= k]]
        found(change) == change.id \in DOMAIN list
        notified == SelectSeq(changes, found)
    IN  IF k < n THEN updates
        ELSE updates \o [i \in 1..Len(notified) |->
                            [kind |-> "notify", id |-> notified[i].id, ok |-> notifyOk]]

SaveReasonMissing(changes, reason) == Len(changes) > 0 /\ IsBlank(reason)

\* k: how many of the updates succeed before one fails (all of them when k is
\* their number); notifyOk: whether the invocations of notify-date-change succeed
handleSaveChangesBody(k, notifyOk) ==
    /\ ~showReasonDialog
    /\ IF DOMAIN pendingChanges = {}
       THEN /\ lastOp' = Op("cal_save", 0, Null, {}, {}, {"default"})
            /\ UNCHANGED <<work_requests, calVars>>
       ELSE IF SaveReasonMissing(pendingDateChanges, dateChangeReason)
       THEN /\ showReasonDialog' = TRUE
            /\ lastOp' = Op("cal_save", 0, Some(dateChangeReason), {}, {}, {})
            /\ UNCHANGED <<work_requests, workRequests, pendingChanges, pendingDateChanges,
                           dateChangeReason>>
       ELSE LET n == Len(pendingDateChanges)
            IN  /\ work_requests' = ApplyUpdates(work_requests, pendingDateChanges, k,
                                                 TextOrNull(Trim(dateChangeReason)))
                /\ IF k < n
                   THEN /\ notifyOk
                        /\ lastOp' = Op("cal_save", 0, Some(dateChangeReason), {"update"}, {"update"},
                                        {"destructive"})
                        /\ UNCHANGED calVars
                   ELSE /\ workRequests' =
                             [i \in DOMAIN workRequests |->
                                 IF i \in DOMAIN pendingChanges
                                 THEN [workRequests[i] EXCEPT !.requested_date = pendingChanges[i]]
                                 ELSE workRequests[i]]
                        /\ pendingChanges' = EmptyTable
                        /\ pendingDateChanges' = <<>>
                        /\ dateChangeReason' = <<>>
                        /\ UNCHANGED showReasonDialog
                        /\ lastOp' = Op("cal_save", 0, Some(dateChangeReason), {"update", "notify"},
                                        IF notifyOk THEN {} ELSE {"notify"}, {"default"})
    /\ UNCHANGED <<pending_work_requests, approved_work, womVars, dashVars, formVars, totalRequests>>

handleSaveChanges ==
    /\ Tick
    /\ \E k \in 0..Len(pendingDateChanges), notifyOk \in BOOLEAN : handleSaveChangesBody(k, notifyOk)

(***************************************************************************)
(* Analytics (fetchAnalyticsData): an error is logged, nothing is shown.   *)
(***************************************************************************)
fetchAnalyticsData ==
    /\ Tick
    /\ \E ok \in BOOLEAN :
         IF ok
         THEN /\ totalRequests' = Cardinality(DOMAIN work_requests)
              /\ lastOp' = Op("analytics_fetch", 0, Null, {"select"}, {}, {})
         ELSE /\ UNCHANGED totalRequests
              /\ lastOp' = Op("analytics_fetch", 0, Null, {"select"}, {"select"}, {})
    /\ UNCHANGED <<backend, womVars, dashVars, calVars, formVars>>

(***************************************************************************)
(* The system.                                                             *)
(***************************************************************************)
\* The database the application starts against: empty; holding one pending
\* request that predates the work_requests table and is still held by
\* pending_work_requests under the same id; or holding one request that was
\* approved and started from the dashboard.
FirstRow == NewRow(1, Some(WOPrefix \o IntToText(1)))

SeedPending == Put(EmptyTable, 1, FirstRow)

SeedStarted ==
    TableUpdate(
        TableUpdate(SeedPending, 1,
            DashUpdateData("approved", Null, Null, Null, Some(FirstRow.requested_date), Null, Null)),
        1, DashUpdateData("in_progress", Null, Null, Null, Null, Null, Null))

Init ==
    /\ \E seed \in {"empty", "pending", "started"} :
         /\ work_requests = CASE seed = "empty"   -> EmptyTable
                              [] seed = "pending" -> SeedPending
                              [] seed = "started" -> SeedStarted
         /\ pending_work_requests = IF seed = "pending" THEN {1} ELSE {}
    /\ approved_work = {}
    /\ requests = EmptyTable
    /\ dashRequests = EmptyTable
    /\ workRequests = EmptyTable
    /\ pendingChanges = EmptyTable
    /\ pendingDateChanges = <<>>
    /\ dateChangeReason = <<>>
    /\ showReasonDialog = FALSE
    /\ workOrderId = <<>>
    /\ isSubmitted = FALSE
    /\ totalRequests = 0
    /\ lastOp = Op("init", 0, Null, {}, {}, {})
    /\ steps = 0
    /\ FilterIdle
    /\ WebhookIdle
    /\ TaskIdle
    /\ StatusIdle
    /\ InsertIdle
    /\ FeedIdle
    /\ CallIdle
    /\ ChecklistIdle
    /\ OtherIdle

Next ==
    \/ \E date \in Dates : FormSubmit(date)
    \/ FormSubmitAnother
    \/ fetchRequests
    \/ \E id \in RequestIds : handlePause(id)
    \/ \E id \in RequestIds : handleResume(id)
    \/ \E id \in RequestIds : handleStartWork(id)
    \/ \E id \in RequestIds, newDate \in Dates \cup {NoDate}, reason \in DateReasonInputs,
          list \in ChecklistInputs : ApprovalSubmit(id, newDate, reason, list)
    \/ \E id \in RequestIds, reason \in RejectReasonInputs : RejectSubmit(id, reason)
    \/ \E id \in RequestIds, hours \in HoursInputs, notes \in NotesInputs :
          CompleteSubmit(id, hours, notes)
    \/ fetchWorkRequests
    \/ \E id \in RequestIds, selectedDate \in {Null} \cup {Some(d) : d \in Dates},
          reason \in DateReasonInputs, list \in ChecklistInputs :
          approveRequest(id, selectedDate, reason, list)
    \/ \E id \in RequestIds : rejectRequest(id)
    \/ \E id \in RequestIds : startWork(id)
    \/ \E id \in RequestIds, text \in HoursTextInputs, notes \in NotesInputs :
          completeWork(id, text, notes)
    \/ calFetchWorkRequests
    \/ \E id \in RequestIds, targetDate \in Dates : handleDrop(id, targetDate)
    \/ \E text \in DateReasonInputs : handleReasonDialogSave(text)
    \/ handleReasonDialogCancel
    \/ \E text \in DateReasonInputs : reasonDialogDismiss(text)
    \/ handleSaveChanges
    \/ fetchAnalyticsData

Spec == Init /\ [][Next]_vars

\* the work-order lifecycle at rest: nothing stored, nothing fetched
MainIdle ==
    /\ work_requests = EmptyTable
    /\ pending_work_requests = {}
    /\ approved_work = {}
    /\ requests = EmptyTable
    /\ dashRequests = EmptyTable
    /\ workRequests = EmptyTable
    /\ pendingChanges = EmptyTable
    /\ pendingDateChanges = <<>>
    /\ dateChangeReason = <<>>
    /\ showReasonDialog = FALSE
    /\ workOrderId = <<>>
    /\ isSubmitted = FALSE
    /\ totalRequests = 0
    /\ lastOp = Op("init", 0, Null, {}, {}, {})
    /\ steps = 0

(***************************************************************************)
(* The list filters on their own: a fetched list, a search text and the    *)
(* selects are given, and a view computes the list it renders.             *)
(***************************************************************************)
FilterInit ==
    /\ MainIdle
    /\ fetchedList \in ListInputs
    /\ search \in SearchInputs
    /\ statusFilter \in StatusFilterInputs
    /\ priorityFilter \in PriorityFilterInputs
    /\ filterDepartment \in DepartmentFilterInputs
    /\ shown = <<>>
    /\ filterView = "none"
    /\ WebhookIdle
    /\ TaskIdle
    /\ StatusIdle
    /\ InsertIdle
    /\ FeedIdle
    /\ CallIdle
    /\ ChecklistIdle
    /\ OtherIdle

FilterFrame ==
    UNCHANGED <<mainVars, webhookVars, taskVars, statusVars, insertVars, feedVars, callVars, checklistVars, otherVars, fetchedList, search, statusFilter, priorityFilter, filterDepartment>>

womRender ==
    /\ shown' = filtered(fetchedList, search, statusFilter, priorityFilter)
    /\ filterView' = "wom"
    /\ FilterFrame

dashRender ==
    /\ shown' = filteredRequests(fetchedList, search, statusFilter, priorityFilter)
    /\ filterView' = "dashboard"
    /\ FilterFrame

calRender ==
    /\ shown' = calFilteredRequests(fetchedList, filterDepartment, statusFilter)
    /\ filterView' = "calendar"
    /\ FilterFrame

FilterNext ==
    \/ womRender
    \/ dashRender
    \/ calRender

SpecFilter == FilterInit /\ [][FilterNext]_vars

(***************************************************************************)
(* The webhook trigger on its own: statements that write rows of           *)
(* work_requests, each followed within its transaction by the AFTER        *)
(* trigger of every row it wrote.                                          *)
(***************************************************************************)
WebhookInit ==
    /\ MainIdle
    /\ FilterIdle
    /\ WebhookIdle
    /\ TaskIdle
    /\ StatusIdle
    /\ InsertIdle
    /\ FeedIdle
    /\ CallIdle
    /\ ChecklistIdle
    /\ OtherIdle

\* the row triggers of one written row
AfterRowWrite(TG_OP, id, OLD_) ==
    LET NEW_  == work_requests'[id]
        reqs == IF work_requests_webhook_trigger(TG_OP)
                THEN <<notify_work_request_webhook(TG_OP, id, OLD_, NEW_)>>
                ELSE <<>>
    IN  /\ rowsWritten' = rowsWritten + 1
        /\ lastWrite' = Some([op |-> TG_OP, id |-> id, old |-> OLD_])
        /\ posted' = posted + Len(reqs)
        /\ lastPost' = IF reqs = <<>> THEN lastPost ELSE Some(reqs[Len(reqs)])

WebhookFrame ==
    UNCHANGED <<pending_work_requests, approved_work, womVars, dashVars, calVars, formVars,
                totalRequests, lastOp, steps, filterVars, taskVars, statusVars, insertVars, feedVars, callVars,
                checklistVars, otherVars>>

\* INSERT INTO work_requests (the public form)
InsertStatement(date) ==
    /\ rowsWritten < MaxWrites
    /\ Cardinality(DOMAIN work_requests) < MaxRequests
    /\ LET id == Cardinality(DOMAIN work_requests) + 1
       IN  /\ work_requests' = Put(work_requests, id,
                                   set_work_order_id(work_requests, NewRow(date, Null)))
           /\ AfterRowWrite("INSERT", id, Null)
    /\ WebhookFrame

\* the UPDATE of update_work_request_status; it matches one row or none
StatusUpdateStatement(id, status, newDate) ==
    /\ rowsWritten < MaxWrites
    /\ work_requests' = update_work_request_status(work_requests, id, status, Some("Admin"),
                                                   Null, Null, Null, newDate)
    /\ IF id \in DOMAIN work_requests
       THEN AfterRowWrite("UPDATE", id, work_requests[id])
       ELSE UNCHANGED webhookVars
    /\ WebhookFrame

\* supabase.from("work_requests").update(...).eq("id", id) (calendar save)
DateUpdateStatement(id, date, reason) ==
    /\ rowsWritten < MaxWrites
    /\ work_requests' = TableUpdate(work_requests, id,
                            [requested_date |-> date, date_changed_reason |-> Some(reason)])
    /\ IF id \in DOMAIN work_requests
       THEN AfterRowWrite("UPDATE", id, work_requests[id])
       ELSE UNCHANGED webhookVars
    /\ WebhookFrame

WebhookNext ==
    \/ \E date \in Dates : InsertStatement(date)
    \/ \E id \in RequestIds, status \in work_status, newDate \in {Null} \cup {Some(d) : d \in Dates} :
          StatusUpdateStatement(id, status, newDate)
    \/ \E id \in RequestIds, date \in Dates : DateUpdateStatement(id, date, <<"o", "k">>)

SpecWebhook == WebhookInit /\ [][WebhookNext]_vars

(***************************************************************************)
(* The personal task board on its own: users sign in and out, the board    *)
(* of the signed-in browser issues its requests, and any user may send     *)
(* requests of their own making to the same table.                         *)
(***************************************************************************)
TaskInit ==
    /\ MainIdle
    /\ FilterIdle
    /\ WebhookIdle
    /\ TaskIdle
    /\ StatusIdle
    /\ InsertIdle
    /\ FeedIdle
    /\ CallIdle
    /\ ChecklistIdle
    /\ OtherIdle

TaskFrame ==
    UNCHANGED <<mainVars, filterVars, webhookVars, statusVars, insertVars, feedVars, callVars,
                checklistVars, otherVars>>

TaskOp(name, error) == [op |-> name, error |-> error]

\* supabase.auth: a user signs in; the component learns of it later
signIn(u) ==
    /\ authUid # Some(u)
    /\ authUid' = Some(u)
    /\ taskOp' = TaskOp("other", FALSE)
    /\ UNCHANGED <<personal_tasks, nextTaskId, session, tasks, editingTask>>
    /\ TaskFrame

signOut ==
    /\ ~IsNull(authUid)
    /\ authUid' = Null
    /\ taskOp' = TaskOp("other", FALSE)
    /\ UNCHANGED <<personal_tasks, nextTaskId, session, tasks, editingTask>>
    /\ TaskFrame

\* getSession().then(setSession) and onAuthStateChange(setSession)
onAuthStateChange ==
    /\ session # authUid
    /\ session' = authUid
    /\ taskOp' = TaskOp("other", FALSE)
    /\ UNCHANGED <<personal_tasks, nextTaskId, authUid, tasks, editingTask>>
    /\ TaskFrame

fetchTasks ==
    /\ \E ok \in BOOLEAN :
         /\ tasks' = IF ok THEN rls_select(authUid, personal_tasks) ELSE tasks
         /\ taskOp' = TaskOp("other", FALSE)
    /\ UNCHANGED <<personal_tasks, nextTaskId, authUid, session, editingTask>>
    /\ TaskFrame

openEditDialog(taskId) ==
    /\ taskId \in DOMAIN tasks
    /\ editingTask # Some(taskId)
    /\ editingTask' = Some(taskId)
    /\ taskOp' = TaskOp("other", FALSE)
    /\ UNCHANGED <<personal_tasks, nextTaskId, authUid, session, tasks>>
    /\ TaskFrame

openNewTaskDialog ==
    /\ ~IsNull(editingTask)
    /\ editingTask' = Null
    /\ taskOp' = TaskOp("other", FALSE)
    /\ UNCHANGED <<personal_tasks, nextTaskId, authUid, session, tasks>>
    /\ TaskFrame

\* handleSubmit of the task dialog; a successful save refetches the list
taskHandleSubmit(title) ==
    /\ IF IsBlank(title)
       THEN /\ taskOp' = TaskOp("other", FALSE)
            /\ UNCHANGED <<personal_tasks, nextTaskId, tasks, editingTask>>
       ELSE LET user_id  == IF IsNull(session) THEN FallbackUserId ELSE Val(session)
                taskData == [title |-> Trim(title), user_id |-> user_id]
                res      == IF IsNull(editingTask)
                            THEN rls_insert(authUid, personal_tasks, nextTaskId,
                                     [user_id |-> user_id, title |-> Trim(title), status |-> "todo"])
                            ELSE rls_update(authUid, personal_tasks, Val(editingTask), taskData)
            IN  /\ IsNull(editingTask) => nextTaskId <= MaxTasks
                /\ personal_tasks' = res.table
                /\ nextTaskId' = IF IsNull(editingTask) /\ ~res.error
                                 THEN nextTaskId + 1 ELSE nextTaskId
                /\ editingTask' = IF res.error THEN editingTask ELSE Null
                /\ tasks' = IF res.error THEN tasks ELSE rls_select(authUid, res.table)
                /\ taskOp' = TaskOp(IF IsNull(editingTask) THEN "create" ELSE "edit", res.error)
    /\ UNCHANGED <<authUid, session>>
    /\ TaskFrame

updateTaskStatus(taskId, newStatus) ==
    /\ taskId \in DOMAIN tasks
    /\ LET res == rls_update(authUid, personal_tasks, taskId, [status |-> newStatus])
       IN  /\ personal_tasks' = res.table
           /\ tasks' = IF res.error THEN tasks ELSE rls_select(authUid, res.table)
           /\ taskOp' = TaskOp("other", FALSE)
    /\ UNCHANGED <<nextTaskId, authUid, session, editingTask>>
    /\ TaskFrame

deleteTask(taskId) ==
    /\ taskId \in DOMAIN tasks
    /\ LET res == rls_delete(authUid, personal_tasks, taskId)
       IN  /\ personal_tasks' = res.table
           /\ tasks' = IF res.error THEN tasks ELSE rls_select(authUid, res.table)
           /\ taskOp' = TaskOp("other", FALSE)
    /\ UNCHANGED <<nextTaskId, authUid, session, editingTask>>
    /\ TaskFrame

\* requests a user sends to the table without the board
restInsert(user_id) ==
    /\ nextTaskId <= MaxTasks
    /\ LET res == rls_insert(authUid, personal_tasks, nextTaskId,
                             [user_id |-> user_id, title |-> <<"a">>, status |-> "todo"])
       IN  /\ personal_tasks' = res.table
           /\ nextTaskId' = IF res.error THEN nextTaskId ELSE nextTaskId + 1
           /\ taskOp' = TaskOp("other", FALSE)
    /\ UNCHANGED <<authUid, session, tasks, editingTask>>
    /\ TaskFrame

restUpdate(taskId, user_id) ==
    /\ LET res == rls_update(authUid, personal_tasks, taskId, [user_id |-> user_id])
       IN  /\ personal_tasks' = res.table
           /\ taskOp' = TaskOp("other", FALSE)
    /\ UNCHANGED <<nextTaskId, authUid, session, tasks, editingTask>>
    /\ TaskFrame

restDelete(taskId) ==
    /\ LET res == rls_delete(authUid, personal_tasks, taskId)
       IN  /\ personal_tasks' = res.table
           /\ taskOp' = TaskOp("other", FALSE)
    /\ UNCHANGED <<nextTaskId, authUid, session, tasks, editingTask>>
    /\ TaskFrame

TaskNext ==
    \/ \E u \in Users : signIn(u)
    \/ signOut
    \/ onAuthStateChange
    \/ fetchTasks
    \/ \E taskId \in 1..MaxTasks : openEditDialog(taskId)
    \/ openNewTaskDialog
    \/ \E title \in TitleInputs : taskHandleSubmit(title)
    \/ \E taskId \in 1..MaxTasks, newStatus \in TaskStatusInputs : updateTaskStatus(taskId, newStatus)
    \/ \E taskId \in 1..MaxTasks : deleteTask(taskId)
    \/ \E user_id \in Users : restInsert(user_id)
    \/ \E taskId \in 1..MaxTasks, user_id \in Users : restUpdate(taskId, user_id)
    \/ \E taskId \in 1..MaxTasks : restDelete(taskId)

SpecTasks == TaskInit /\ [][TaskNext]_vars

(***************************************************************************)
(* The status check on its own: some requests are stored, an address is    *)
(* entered, and the page or a direct call of the SQL function answers.     *)
(***************************************************************************)
StatusInit ==
    /\ MainIdle
    /\ FilterIdle
    /\ WebhookIdle
    /\ TaskIdle
    /\ emailTable \in EmailTables
    /\ email \in EnteredEmailInputs
    /\ statusRequests = <<>>
    /\ hasSearched = "no"
    /\ InsertIdle
    /\ FeedIdle
    /\ CallIdle
    /\ ChecklistIdle
    /\ OtherIdle

StatusFrame ==
    UNCHANGED <<mainVars, filterVars, webhookVars, taskVars, insertVars, feedVars, callVars,
                checklistVars, otherVars, emailTable, email>>

\* Index.handleCheckStatus
handleCheckStatus ==
    /\ \E ok \in BOOLEAN :
         /\ statusRequests' = IF ok THEN select_eq_requestor_email(emailTable, Trim(email))
                              ELSE statusRequests
         /\ hasSearched' = IF ok THEN "page" ELSE "failed"
    /\ StatusFrame

\* supabase.rpc("get_work_requests_by_email"), open to the anon role
rpcGetWorkRequestsByEmail ==
    /\ statusRequests' = get_work_requests_by_email(emailTable, email)
    /\ hasSearched' = "rpc"
    /\ StatusFrame

StatusNext ==
    \/ handleCheckStatus
    \/ rpcGetWorkRequestsByEmail

SpecStatus == StatusInit /\ [][StatusNext]_vars

(***************************************************************************)
(* Concurrent submissions: each insert runs in its own database session.   *)
(* The BEFORE INSERT trigger reads the rows committed so far (READ         *)
(* COMMITTED; nothing locks the table and work_order_id has no unique      *)
(* constraint), and the row becomes visible to others when its             *)
(* transaction commits.                                                    *)
(***************************************************************************)
InsertInit ==
    /\ MainIdle
    /\ FilterIdle
    /\ WebhookIdle
    /\ TaskIdle
    /\ StatusIdle
    /\ InsertIdle
    /\ FeedIdle
    /\ CallIdle
    /\ ChecklistIdle
    /\ OtherIdle

InsertFrame ==
    UNCHANGED <<pending_work_requests, approved_work, womVars, dashVars, calVars, formVars,
                totalRequests, lastOp, steps, filterVars, webhookVars, taskVars, statusVars, feedVars, callVars,
                checklistVars, otherVars>>

RowsInFlight == {s \in Sessions : ~IsNull(inFlight[s])}

\* INSERT of the public form in session s: the trigger fills work_order_id
InsertBegin(s, date) ==
    /\ IsNull(inFlight[s])
    /\ Cardinality(DOMAIN work_requests) + Cardinality(RowsInFlight) < MaxWrites
    /\ inFlight' = [inFlight EXCEPT ![s] =
                        Some(set_work_order_id(work_requests, NewRow(date, Null)))]
    /\ UNCHANGED work_requests
    /\ InsertFrame

\* COMMIT of session s
InsertCommit(s) ==
    /\ ~IsNull(inFlight[s])
    /\ work_requests' = Put(work_requests, Cardinality(DOMAIN work_requests) + 1, Val(inFlight[s]))
    /\ inFlight' = [inFlight EXCEPT ![s] = Null]
    /\ InsertFrame

\* the request fails before its commit: ROLLBACK
InsertRollback(s) ==
    /\ ~IsNull(inFlight[s])
    /\ inFlight' = [inFlight EXCEPT ![s] = Null]
    /\ UNCHANGED work_requests
    /\ InsertFrame

InsertNext ==
    \/ \E s \in Sessions, date \in Dates : InsertBegin(s, date)
    \/ \E s \in Sessions : InsertCommit(s)
    \/ \E s \in Sessions : InsertRollback(s)

SpecInsert == InsertInit /\ [][InsertNext]_vars

(***************************************************************************)
(* The change feed of the work-order management screen.  A handler's RPC   *)
(* takes effect in the backend when it is sent and its response is handled *)
(* later; every written row emits a change event, and events are           *)
(* delivered one at a time in emission order.  Another admin session       *)
(* changes rows through update_work_request_status.                        *)
(***************************************************************************)
FeedInit ==
    /\ \E seed \in {"pending", "started"} :
         /\ work_requests = IF seed = "pending" THEN SeedPending ELSE SeedStarted
         /\ requests = work_requests
    /\ pending_work_requests = {}
    /\ approved_work = {}
    /\ dashRequests = EmptyTable
    /\ workRequests = EmptyTable
    /\ pendingChanges = EmptyTable
    /\ pendingDateChanges = <<>>
    /\ dateChangeReason = <<>>
    /\ showReasonDialog = FALSE
    /\ workOrderId = <<>>
    /\ isSubmitted = FALSE
    /\ totalRequests = 0
    /\ lastOp = Op("init", 0, Null, {}, {}, {})
    /\ steps = 0
    /\ FilterIdle
    /\ WebhookIdle
    /\ TaskIdle
    /\ StatusIdle
    /\ InsertIdle
    /\ FeedIdle
    /\ CallIdle
    /\ ChecklistIdle
    /\ OtherIdle

FeedFrame ==
    UNCHANGED <<pending_work_requests, approved_work, dashVars, calVars, formVars,
                totalRequests, lastOp, filterVars, webhookVars, taskVars, statusVars, insertVars, callVars,
                checklistVars, otherVars>>

\* the postgres_changes payloads of the rows a statement wrote
ChangeEvents(eventType, before, after) ==
    IF after = before THEN <<>>
    ELSE LET id == CHOOSE i \in DOMAIN after : i \notin DOMAIN before \/ after[i] # before[i]
         IN  <<[eventType |-> eventType, id |-> id, new |-> after[id]]>>

\* the backend call a handler makes and the change it applies to its list
\* when the call has succeeded
RpcOf(action, id, table) ==
    CASE action = "pause"  -> update_work_request_status(table, id, "paused",
                                                         Null, Null, Null, Null, Null)
      [] action = "resume" -> update_work_request_status(table, id, "in_progress",
                                                         Null, Null, Null, Null, Null)
      [] action = "start"  -> start_work(table, id, "Admin")

OptimisticChange(action) ==
    CASE action = "pause"  -> [status |-> "paused"]
      [] action = "resume" -> [status |-> "in_progress"]
      [] action = "start"  -> [status |-> "in_progress", started_at |-> Some(Now),
                               started_by |-> Some("Admin")]

\* handlePause, handleResume, handleStartWork up to their await
RpcSend(id, action) ==
    /\ steps < MaxSteps
    /\ steps' = steps + 1
    /\ Offered(requests, id, action)
    /\ \E ok \in BOOLEAN :
         /\ work_requests' = IF ok THEN RpcOf(action, id, work_requests) ELSE work_requests
         /\ feed' = feed \o ChangeEvents("UPDATE", work_requests, work_requests')
         /\ responses' = responses \cup {[action |-> action, id |-> id, error |-> ~ok]}
    /\ UNCHANGED requests
    /\ FeedFrame

\* the rest of the handler, when the response has arrived
RpcResponse(r) ==
    /\ r \in responses
    /\ responses' = responses \ {r}
    /\ requests' = IF r.error THEN requests
                   ELSE LocalMerge(requests, r.id, OptimisticChange(r.action))
    /\ UNCHANGED <<work_requests, feed, steps>>
    /\ FeedFrame

\* another admin session moves a work order to a status
OtherSessionUpdate(id, status) ==
    /\ steps < MaxSteps
    /\ steps' = steps + 1
    /\ id \in DOMAIN work_requests
    /\ work_requests[id].status # status
    /\ work_requests' = update_work_request_status(work_requests, id, status, Some("Admin"),
                                                   Null, Null, Null, Null)
    /\ feed' = feed \o ChangeEvents("UPDATE", work_requests, work_requests')
    /\ UNCHANGED <<requests, responses>>
    /\ FeedFrame

\* a submission of the public form
OtherSessionInsert(date) ==
    /\ steps < MaxSteps
    /\ steps' = steps + 1
    /\ Cardinality(DOMAIN work_requests) < MaxRequests
    /\ work_requests' = Put(work_requests, Cardinality(DOMAIN work_requests) + 1,
                            set_work_order_id(work_requests, NewRow(date, Null)))
    /\ feed' = feed \o ChangeEvents("INSERT", work_requests, work_requests')
    /\ UNCHANGED <<requests, responses>>
    /\ FeedFrame

\* the subscription callback, for the oldest undelivered event
DeliverEvent ==
    /\ feed # <<>>
    /\ LET payload == Head(feed)
       IN  requests' =
             CASE payload.eventType = "INSERT" -> Put(requests, payload.id, payload.new)
               [] payload.eventType = "UPDATE" ->
                    [i \in DOMAIN requests |-> IF i = payload.id THEN payload.new ELSE requests[i]]
               [] payload.eventType = "DELETE" ->
                    [i \in DOMAIN requests \ {payload.id} |-> requests[i]]
    /\ feed' = Tail(feed)
    /\ UNCHANGED <<work_requests, responses, steps>>
    /\ FeedFrame

FeedNext ==
    \/ \E id \in RequestIds, action \in {"pause", "resume", "start"} : RpcSend(id, action)
    \/ \E r \in responses : RpcResponse(r)
    \/ \E id \in RequestIds, status \in work_status : OtherSessionUpdate(id, status)
    \/ \E date \in Dates : OtherSessionInsert(date)
    \/ DeliverEvent

SpecFeed == FeedInit /\ [][FeedNext]_vars

(***************************************************************************)
(* One status update on its own: a table, a row of it, a target status     *)
(* and the inputs are given, and the dashboard's client-side update, the   *)
(* database function and its earlier overload are each applied to that     *)
(* table.  The dashboard writes the actor 'admin-dashboard'.               *)
(***************************************************************************)
DashboardActor == "admin-dashboard"

\* rows a status update can meet: pending, in progress, rejected
RowInputs ==
    {FirstRow,
     SeedStarted[1],
     update_work_request_status(SeedPending, 1, "rejected", Some("Admin"),
                                Some(RejectedByAdmin), Null, Null, Null)[1]}

CallTables ==
    {Put(Put(EmptyTable, 1, row), 2, NewRow(2, Some(WOPrefix \o IntToText(2)))) : row \in RowInputs}

CallInputs ==
    [id : {1, 2},
     status : work_status,
     user : {Null, Some(DashboardActor)},
     reason : {Null, Some(<<>>), Some(RejectedByAdmin)},
     hours : {Null, Some(0), Some(2)},
     notes : {Null, Some(<<"d">>)},
     newDate : {Null, Some(2)},
     dateReason : {Null, Some(<<"o", "k">>)}]

CallInit ==
    /\ MainIdle
    /\ FilterIdle
    /\ WebhookIdle
    /\ TaskIdle
    /\ StatusIdle
    /\ InsertIdle
    /\ FeedIdle
    /\ callTable \in CallTables
    /\ call \in CallInputs
    /\ clientTable = Null
    /\ serverTable = Null
    /\ legacyTable = Null
    /\ ChecklistIdle
    /\ OtherIdle

CallFrame ==
    UNCHANGED <<mainVars, filterVars, webhookVars, taskVars, statusVars, insertVars, feedVars,
                checklistVars, otherVars, callTable, call>>

\* updateWorkRequestStatus(id, status, options): the dashboard's update
dashboardApplies ==
    /\ IsNull(clientTable)
    /\ call.status \in {"approved", "rejected", "in_progress", "paused", "completed"}
    /\ clientTable' = Some(TableUpdate(callTable, call.id,
                          DashUpdateData(call.status, call.reason, call.hours, call.notes,
                                         call.newDate, call.dateReason, Null)))
    /\ UNCHANGED <<serverTable, legacyTable>>
    /\ CallFrame

\* rpc("update_work_request_status", ...) with the same inputs
functionApplies ==
    /\ IsNull(serverTable)
    /\ serverTable' = Some(update_work_request_status(callTable, call.id, call.status, call.user,
                               call.reason, call.hours, call.notes, call.newDate))
    /\ UNCHANGED <<clientTable, legacyTable>>
    /\ CallFrame

\* the six-argument overload with the same inputs, the date aside
legacyFunctionApplies ==
    /\ IsNull(legacyTable)
    /\ IsNull(call.newDate)
    /\ legacyTable' = Some(update_work_request_status_v1(callTable, call.id, call.status,
                               call.user, call.reason, call.hours, call.notes))
    /\ UNCHANGED <<clientTable, serverTable>>
    /\ CallFrame

CallNext ==
    \/ dashboardApplies
    \/ functionApplies
    \/ legacyFunctionApplies

SpecCall == CallInit /\ [][CallNext]_vars

(***************************************************************************)
(* The approval checklist on its own: a pending request is shown by both   *)
(* admin screens, either of them approves it, and the work-order           *)
(* management screen fetches the rows again.  approvedWith keeps the       *)
(* checklist of the latest approval that was reported as successful.       *)
(***************************************************************************)
ChecklistInit ==
    /\ work_requests = SeedPending
    /\ pending_work_requests = {1}
    /\ approved_work = {}
    /\ requests = SeedPending
    /\ dashRequests = SeedPending
    /\ workRequests = EmptyTable
    /\ pendingChanges = EmptyTable
    /\ pendingDateChanges = <<>>
    /\ dateChangeReason = <<>>
    /\ showReasonDialog = FALSE
    /\ workOrderId = <<>>
    /\ isSubmitted = FALSE
    /\ totalRequests = 0
    /\ lastOp = Op("init", 0, Null, {}, {}, {})
    /\ steps = 0
    /\ FilterIdle
    /\ WebhookIdle
    /\ TaskIdle
    /\ StatusIdle
    /\ InsertIdle
    /\ FeedIdle
    /\ CallIdle
    /\ ChecklistIdle
    /\ OtherIdle

ChecklistFrame ==
    UNCHANGED <<steps, filterVars, webhookVars, taskVars, statusVars, insertVars, feedVars, callVars,
                otherVars>>

\* the checklist an approval was reported successful with, if it had items
Reported(id, checklistItems) ==
    approvedWith' = IF "default" \in lastOp'.toasts /\ checklistItems # <<>>
                    THEN Some([id |-> id, items |-> checklistItems])
                    ELSE approvedWith

womApproves(id, newDate, dateReason, checklistItems) ==
    /\ ApprovalSubmitBody(id, newDate, dateReason, checklistItems)
    /\ Reported(id, checklistItems)
    /\ ChecklistFrame

dashboardApproves(id, selectedDate, reason, checklistItems) ==
    /\ approveRequestBody(id, selectedDate, reason, checklistItems)
    /\ Reported(id, checklistItems)
    /\ ChecklistFrame

womFetches ==
    /\ fetchRequestsBody
    /\ UNCHANGED approvedWith
    /\ ChecklistFrame

ChecklistNext ==
    \/ \E id \in RequestIds, newDate \in Dates \cup {NoDate}, reason \in DateReasonInputs,
          list \in ChecklistInputs : womApproves(id, newDate, reason, list)
    \/ \E id \in RequestIds, selectedDate \in {Null} \cup {Some(d) : d \in Dates},
          reason \in DateReasonInputs, list \in ChecklistInputs :
          dashboardApproves(id, selectedDate, reason, list)
    \/ womFetches

SpecChecklist == ChecklistInit /\ [][ChecklistNext]_vars

(***************************************************************************)
(* The calendar on its own: every request of the table is pending on day 1 *)
(* and the calendar has fetched them when it was mounted.  Work orders are *)
(* dropped on days, the reason dialog is answered and the pending changes  *)
(* are saved; saveOf and saveLog hold what a Save ran with and which       *)
(* requests it issued, until the next handler runs.                        *)
(***************************************************************************)
CalendarRows == [id \in RequestIds |-> NewRow(1, Some(WOPrefix \o IntToText(id)))]

CalendarInit ==
    /\ work_requests = CalendarRows
    /\ pending_work_requests = {}
    /\ approved_work = {}
    /\ requests = EmptyTable
    /\ dashRequests = EmptyTable
    /\ workRequests = CalendarRows
    /\ pendingChanges = EmptyTable
    /\ pendingDateChanges = <<>>
    /\ dateChangeReason = <<>>
    /\ showReasonDialog = FALSE
    /\ workOrderId = <<>>
    /\ isSubmitted = FALSE
    /\ totalRequests = 0
    /\ lastOp = Op("init", 0, Null, {}, {}, {})
    /\ steps = 0
    /\ AuxIdle
    /\ OtherIdle

CalendarFrame ==
    UNCHANGED <<steps, filterVars, webhookVars, taskVars, statusVars, insertVars, feedVars, callVars,
                checklistVars, listVars, pageVars, wizardVars, analyticsVars>>

\* handleSaveChanges gets past its two early returns
SaveRuns == DOMAIN pendingChanges # {} /\ ~SaveReasonMissing(pendingDateChanges, dateChangeReason)

\* any other handler than Save: the record of the latest Save is dropped
NoSave == saveOf' = <<>> /\ saveLog' = <<>>

calDrop(id, targetDate) ==
    /\ handleDropBody(id, targetDate)
    /\ NoSave
    /\ CalendarFrame

calReasonSave(text) ==
    /\ handleReasonDialogSaveBody(text)
    /\ NoSave
    /\ CalendarFrame

calReasonCancel ==
    /\ handleReasonDialogCancelBody
    /\ NoSave
    /\ CalendarFrame

calReasonDismiss(text) ==
    /\ reasonDialogDismissBody(text)
    /\ NoSave
    /\ CalendarFrame

calSave ==
    /\ \E k \in 0..Len(pendingDateChanges), notifyOk \in BOOLEAN :
         /\ handleSaveChangesBody(k, notifyOk)
         /\ saveOf' = IF SaveRuns THEN pendingDateChanges ELSE <<>>
         /\ saveLog' = IF SaveRuns THEN SaveLog(pendingDateChanges, workRequests, k, notifyOk)
                       ELSE <<>>
    /\ CalendarFrame

CalendarNext ==
    \/ \E id \in RequestIds, d \in Dates : calDrop(id, d)
    \/ \E text \in DateReasonInputs : calReasonSave(text)
    \/ calReasonCancel
    \/ \E text \in DateReasonInputs : calReasonDismiss(text)
    \/ calSave

SpecCalendar == CalendarInit /\ [][CalendarNext]_vars

(***************************************************************************)
(* The list of the work-order management screen as the ordered list it is. *)
(* The screen is mounted: its subscription is active and its fetch has     *)
(* been sent.  The server answers the fetch from the rows it holds at that *)
(* moment; rows are inserted, updated and deleted by other sessions, each  *)
(* write emitting a change event; the response and the events reach the    *)
(* screen independently of each other, events in emission order.           *)
(***************************************************************************)
ListRow(id, status) == [id |-> id, status |-> status]

ListInit ==
    /\ MainIdle
    /\ AuxIdle
    /\ CalendarIdle
    /\ PageIdle
    /\ WizardIdle
    /\ AnalyticsIdle
    /\ \E n \in 0..1 :
         /\ dbRows = [i \in 1..n |-> ListRow(i, "pending")]
         /\ dbNextId = n + 1
    /\ fetchCall = [state |-> "sent", data |-> <<>>]
    /\ changeQueue = <<>>
    /\ rowList = <<>>

ListFrame ==
    UNCHANGED <<mainVars, filterVars, webhookVars, taskVars, statusVars, insertVars, feedVars, callVars,
                checklistVars, calendarVars, pageVars, wizardVars, analyticsVars>>

\* the server runs the select of fetchRequests (created_at descending)
serverSelect ==
    /\ fetchCall.state = "sent"
    /\ \E ok \in BOOLEAN :
         fetchCall' = [state |-> IF ok THEN "answered" ELSE "failed", data |-> IF ok THEN dbRows ELSE <<>>]
    /\ UNCHANGED <<dbRows, dbNextId, changeQueue, rowList>>
    /\ ListFrame

\* fetchRequests after its await
fetchResponse ==
    /\ fetchCall.state \in {"answered", "failed"}
    /\ rowList' = IF fetchCall.state = "answered" THEN fetchCall.data ELSE rowList
    /\ fetchCall' = [state |-> "done", data |-> <<>>]
    /\ UNCHANGED <<dbRows, dbNextId, changeQueue>>
    /\ ListFrame

rowInserted ==
    /\ dbNextId <= MaxRequests
    /\ dbRows' = <<ListRow(dbNextId, "pending")>> \o dbRows
    /\ dbNextId' = dbNextId + 1
    /\ changeQueue' = Append(changeQueue, [eventType |-> "INSERT", id |-> dbNextId,
                                   new |-> ListRow(dbNextId, "pending")])
    /\ UNCHANGED <<fetchCall, rowList>>
    /\ ListFrame

rowUpdated(i) ==
    /\ i \in 1..Len(dbRows)
    /\ dbRows[i].status = "pending"
    /\ dbRows' = [dbRows EXCEPT ![i].status = "approved"]
    /\ changeQueue' = Append(changeQueue, [eventType |-> "UPDATE", id |-> dbRows[i].id,
                                   new |-> ListRow(dbRows[i].id, "approved")])
    /\ UNCHANGED <<dbNextId, fetchCall, rowList>>
    /\ ListFrame

rowDeleted(i) ==
    /\ i \in 1..Len(dbRows)
    /\ LET other(r) == r.id # dbRows[i].id
       IN  dbRows' = SelectSeq(dbRows, other)
    /\ changeQueue' = Append(changeQueue, [eventType |-> "DELETE", id |-> dbRows[i].id,
                                   new |-> dbRows[i]])
    /\ UNCHANGED <<dbNextId, fetchCall, rowList>>
    /\ ListFrame

changeDelivered ==
    /\ changeQueue # <<>>
    /\ rowList' = realtimeCallback(rowList, Head(changeQueue))
    /\ changeQueue' = Tail(changeQueue)
    /\ UNCHANGED <<dbRows, dbNextId, fetchCall>>
    /\ ListFrame

ListNext ==
    \/ serverSelect
    \/ fetchResponse
    \/ rowInserted
    \/ \E i \in 1..MaxRequests : rowUpdated(i)
    \/ \E i \in 1..MaxRequests : rowDeleted(i)
    \/ changeDelivered

SpecList == ListInit /\ [][ListNext]_vars

(***************************************************************************)
(* The pagination of an admin table.  The rows differ in status only; the  *)
(* search box is empty and the priority filter is off.  The admin pages    *)
(* through the table, changes the status filter and moves a shown request  *)
(* to another status; on the work-order management screen change events    *)
(* of other sessions insert, update and delete rows.                       *)
(***************************************************************************)
PageStatuses == {"pending", "approved"}

PageRow(status) == [ListRows[2] EXCEPT !.status = status]

\* the filtered list the open screen renders
PageFiltered ==
    IF pageScreen = "wom" THEN filtered(pageRows, <<>>, pageFilter, All)
    ELSE filteredRequests(pageRows, <<>>, pageFilter, All)

PageTotal == IF pageScreen = "wom" THEN totalPages(PageFiltered) ELSE dashTotalPages(PageFiltered)

PageShown ==
    IF pageScreen = "wom" THEN paginated(PageFiltered, page)
    ELSE paginatedRequests(PageFiltered, page)

\* the pagination bar is rendered
PageBar ==
    IF pageScreen = "wom" THEN Len(PageFiltered) > ITEMS_PER_PAGE ELSE PageTotal > 1

\* the positions in the list of the rows on the page shown
PageShownAt ==
    LET matches(i) == pageFilter = All \/ pageRows[i].status = pageFilter
        rank(i) == Cardinality({ j \in 1..i : matches(j) })
    IN  { i \in 1..Len(pageRows) :
            /\ matches(i)
            /\ rank(i) > (page - 1) * ITEMS_PER_PAGE
            /\ rank(i) <= page * ITEMS_PER_PAGE }

PageInit ==
    /\ MainIdle
    /\ AuxIdle
    /\ CalendarIdle
    /\ ListIdle
    /\ WizardIdle
    /\ AnalyticsIdle
    /\ pageScreen \in {"wom", "dash"}
    /\ \E n \in 0..MaxPageRows : pageRows = [i \in 1..n |-> PageRow("pending")]
    /\ pageFilter = All
    /\ page = 1

PageFrame ==
    UNCHANGED <<mainVars, filterVars, webhookVars, taskVars, statusVars, insertVars, feedVars, callVars,
                checklistVars, calendarVars, listVars, wizardVars, analyticsVars, pageScreen>>

\* the status filter is changed: the page is reset
setStatusFilter(value) ==
    /\ value # pageFilter
    /\ pageFilter' = value
    /\ page' = 1
    /\ UNCHANGED pageRows
    /\ PageFrame

previousPage ==
    /\ PageBar
    /\ page # 1
    /\ page' = IF page - 1 < 1 THEN 1 ELSE page - 1
    /\ UNCHANGED <<pageRows, pageFilter>>
    /\ PageFrame

nextPage ==
    /\ PageBar
    /\ page # PageTotal
    /\ page' = IF PageTotal < page + 1 THEN PageTotal ELSE page + 1
    /\ UNCHANGED <<pageRows, pageFilter>>
    /\ PageFrame

pageButton(pn) ==
    /\ PageBar
    /\ pn \in (IF pageScreen = "wom" THEN getPageNumbers(page, PageTotal)
               ELSE dashPageNumbers(PageTotal))
    /\ page' = pn
    /\ UNCHANGED <<pageRows, pageFilter>>
    /\ PageFrame

\* a pending request on the page shown is approved: the work-order
\* management screen merges the status into its list, the dashboard fetches
\* the rows again
shownRequestApproved(i) ==
    /\ i \in PageShownAt
    /\ pageRows[i].status = "pending"
    /\ pageRows' = [pageRows EXCEPT ![i].status = "approved"]
    /\ UNCHANGED <<pageFilter, page>>
    /\ PageFrame

\* the subscription callback of the work-order management screen
pageChangeEvent(payload) ==
    /\ pageScreen = "wom"
    /\ payload.eventType = "INSERT" => Len(pageRows) < MaxPageRows
    /\ payload.eventType # "INSERT" => payload.at \in 1..Len(pageRows)
    /\ payload.eventType = "UPDATE" => pageRows[payload.at].status = "pending"
    /\ pageRows' =
         CASE payload.eventType = "INSERT" -> <<PageRow("pending")>> \o pageRows
           [] payload.eventType = "UPDATE" -> [pageRows EXCEPT ![payload.at].status = "approved"]
           [] payload.eventType = "DELETE" ->
                [i \in 1..(Len(pageRows) - 1) |->
                    IF i < payload.at THEN pageRows[i] ELSE pageRows[i + 1]]
    /\ UNCHANGED <<pageFilter, page>>
    /\ PageFrame

PageNext ==
    \/ \E value \in {All} \cup PageStatuses : setStatusFilter(value)
    \/ previousPage
    \/ nextPage
    \/ \E pn \in 1..Ceil(MaxPageRows, ITEMS_PER_PAGE) : pageButton(pn)
    \/ \E i \in 1..MaxPageRows : shownRequestApproved(i)
    \/ \E eventType \in {"INSERT", "UPDATE", "DELETE"}, at \in 1..MaxPageRows :
          pageChangeEvent([eventType |-> eventType, at |-> at])

SpecPage == PageInit /\ [][PageNext]_vars

(***************************************************************************)
(* The public form on its own: fields of the step shown are edited, the    *)
(* footer buttons and the Edit links of the review step move between the   *)
(* steps, and the review step submits.                                     *)
(***************************************************************************)
WizardInit ==
    /\ MainIdle
    /\ AuxIdle
    /\ CalendarIdle
    /\ ListIdle
    /\ PageIdle
    /\ WizardIdle
    /\ AnalyticsIdle

WizardFrame ==
    UNCHANGED <<work_requests, pending_work_requests, approved_work, womVars, dashVars, calVars,
                workOrderId, totalRequests, lastOp, steps,
                filterVars, webhookVars, taskVars, statusVars, insertVars, feedVars, callVars,
                checklistVars, calendarVars, listVars, pageVars, analyticsVars>>

handleInputChange(field, value) ==
    /\ ~isSubmitted
    /\ field \in StepFields(currentStep)
    /\ formData' = [formData EXCEPT ![field] = value]
    /\ UNCHANGED <<currentStep, inserted, isSubmitted>>
    /\ WizardFrame

\* the Next button, rendered on the steps before the review
handleNext ==
    /\ ~isSubmitted
    /\ currentStep < 3
    /\ currentStep' = IF canGoNext(currentStep, formData) THEN currentStep + 1 ELSE currentStep
    /\ UNCHANGED <<formData, inserted, isSubmitted>>
    /\ WizardFrame

\* the Back button, rendered on every step but the first
handleBack ==
    /\ ~isSubmitted
    /\ currentStep > 0
    /\ currentStep' = currentStep - 1
    /\ UNCHANGED <<formData, inserted, isSubmitted>>
    /\ WizardFrame

\* an Edit link of the review step
editSection(step) ==
    /\ ~isSubmitted
    /\ currentStep = 3
    /\ currentStep' = step
    /\ UNCHANGED <<formData, inserted, isSubmitted>>
    /\ WizardFrame

\* the Submit button, rendered on the review step
handleSubmit ==
    /\ ~isSubmitted
    /\ currentStep = 3
    /\ \E ok \in BOOLEAN :
         IF ok
         THEN /\ inserted' = Some(InsertPayload(formData))
              /\ isSubmitted' = TRUE
         ELSE UNCHANGED <<inserted, isSubmitted>>
    /\ UNCHANGED <<currentStep, formData>>
    /\ WizardFrame

onSubmitAnother ==
    /\ isSubmitted
    /\ isSubmitted' = FALSE
    /\ currentStep' = 0
    /\ formData' = EmptyForm
    /\ UNCHANGED inserted
    /\ WizardFrame

WizardNext ==
    \/ \E field \in DOMAIN EmptyForm : \E value \in FieldInputs(field) :
          handleInputChange(field, value)
    \/ handleNext
    \/ handleBack
    \/ \E step \in 0..2 : editSection(step)
    \/ handleSubmit
    \/ onSubmitAnother

SpecWizard == WizardInit /\ [][WizardNext]_vars

(***************************************************************************)
(* The analytics page on its own, over a table that does not change while  *)
(* the page is open.  The page is mounted with its first fetch in flight;  *)
(* every change of the time range starts another fetch, and the responses  *)
(* are handled in any order.                                               *)
(***************************************************************************)
\* completed requests asked for day 1 and completed the evening before, at
\* the beginning of day 1, during day 1 or during day 2; a pending request
AnalyticsRowInputs ==
    { [age |-> age, status |-> "completed", requested_date |-> 1, completed_at |-> Some(at)] :
        age \in {10, 60}, at \in {10, 24, 34, 58} }
    \cup { [age |-> 10, status |-> "pending", requested_date |-> 1, completed_at |-> Null] }

TimeRanges == {"30days", "6months"}

AnalyticsInit ==
    /\ MainIdle
    /\ AuxIdle
    /\ CalendarIdle
    /\ ListIdle
    /\ PageIdle
    /\ WizardIdle
    /\ \E n \in 0..MaxRequests : analyticsTable \in [1..n -> AnalyticsRowInputs]
    /\ timeRange = "6months"
    /\ analyticsCalls = {[range |-> "6months", latest |-> TRUE]}
    /\ latestFailed = FALSE
    /\ shownFrom = Null
    /\ onTimeRate = 0

AnalyticsFrame ==
    UNCHANGED <<work_requests, pending_work_requests, approved_work, womVars, dashVars, calVars,
                formVars, lastOp, steps,
                filterVars, webhookVars, taskVars, statusVars, insertVars, feedVars, callVars,
                checklistVars, calendarVars, listVars, pageVars, wizardVars, analyticsTable>>

\* the time range select: the effect runs fetchAnalyticsData up to its await
setTimeRange(value) ==
    /\ value # timeRange
    /\ timeRange' = value
    /\ analyticsCalls' = { [c EXCEPT !.latest = FALSE] : c \in analyticsCalls }
                         \cup {[range |-> value, latest |-> TRUE]}
    /\ latestFailed' = FALSE
    /\ UNCHANGED <<totalRequests, shownFrom, onTimeRate>>
    /\ AnalyticsFrame

\* fetchAnalyticsData after its await, for the response to the call c
analyticsResponse(c, error) ==
    /\ c \in analyticsCalls
    /\ analyticsCalls' = analyticsCalls \ {c}
    /\ IF error
       THEN /\ latestFailed' = (latestFailed \/ c.latest)
            /\ UNCHANGED <<totalRequests, shownFrom, onTimeRate>>
       ELSE LET requests_ == RowsInRange(analyticsTable, c.range)
            IN  /\ totalRequests' = Len(requests_)
                /\ onTimeRate' = IF requests_ = <<>> THEN 0 ELSE OnTimeRate(requests_)
                /\ shownFrom' = Some(requests_)
                /\ UNCHANGED latestFailed
    /\ UNCHANGED timeRange
    /\ AnalyticsFrame

AnalyticsNext ==
    \/ \E value \in TimeRanges : setTimeRange(value)
    \/ \E c \in analyticsCalls, error \in BOOLEAN : analyticsResponse(c, error)

SpecAnalytics == AnalyticsInit /\ [][AnalyticsNext]_vars

(***************************************************************************)
(* Properties.                                                             *)
(***************************************************************************)
WomOps == {"pause", "resume", "start", "wom_approve", "wom_reject", "wom_complete"}
DashOps == {"dash_approve", "dash_reject", "dash_start", "dash_complete"}

\* C1: in every reachable state, every stored work request whose status is
\* rejected has a rejected_reason that is neither NULL nor the empty text,
\* whether the work-order management screen or the dashboard rejected it.
C1_RejectedHasReason ==
    \A id \in DOMAIN work_requests :
        work_requests[id].status = "rejected" =>
            /\ ~IsNull(work_requests[id].rejected_reason)
            /\ Val(work_requests[id].rejected_reason) # <<>>

\* a request rejected from the work-order management screen and then, from a
\* dashboard that still showed it pending, rejected again
C1_RejectedOnBothScreens ==
    \E id \in DOMAIN work_requests \cap DOMAIN requests :
        /\ work_requests[id].status = "rejected"
        /\ work_requests[id].rejected_by = Some("admin-dashboard")
        /\ requests[id].status = "rejected"
        /\ requests[id].rejected_by = Some("Admin")
        /\ ~IsNull(requests[id].rejected_reason)

\* C2: in every reachable state, every stored work request whose status is
\* completed has an actual_hours value that is not NULL and is greater
\* than 0, whether the work-order management screen or the dashboard
\* completed it.
C2_CompletedHasHours ==
    \A id \in DOMAIN work_requests :
        work_requests[id].status = "completed" =>
            /\ ~IsNull(work_requests[id].actual_hours)
            /\ Val(work_requests[id].actual_hours) > 0

\* a request completed from the work-order management screen and then, from
\* a dashboard that still showed it in progress, completed again
C2_CompletedOnBothScreens ==
    \E id \in DOMAIN work_requests \cap DOMAIN requests :
        /\ work_requests[id].status = "completed"
        /\ work_requests[id].completed_by = Some("admin-dashboard")
        /\ requests[id].status = "completed"
        /\ requests[id].completed_by = Some("Admin")

\* C3: no step changes the stored requested_date of a work request unless a
\* non-blank reason was entered for the change, and a handler asked to change
\* a date with a blank reason makes no backend call and leaves the table as
\* it was.
C3_DateChangeNeedsReason ==
    [][ /\ \A id \in DOMAIN work_requests :
              work_requests'[id].requested_date # work_requests[id].requested_date =>
                  /\ ~IsNull(lastOp'.reason)
                  /\ ~IsBlank(Val(lastOp'.reason))
        /\ (~IsNull(lastOp'.reason) /\ IsBlank(Val(lastOp'.reason))) =>
              /\ lastOp'.calls = {}
              /\ work_requests' = work_requests ]_vars

\* C4: whenever an approval or a calendar Save changes the stored
\* requested_date of a work request, the row's date_changed_reason afterwards
\* is the reason entered for that change (compared without the surrounding
\* blanks, which the calendar trims and the dashboard keeps).
C4_DateChangeReasonStored ==
    [][ \A id \in DOMAIN work_requests :
           ( /\ lastOp'.op \in {"wom_approve", "dash_approve", "cal_save"}
             /\ work_requests'[id].requested_date # work_requests[id].requested_date ) =>
               /\ ~IsNull(lastOp'.reason)
               /\ ~IsNull(work_requests'[id].date_changed_reason)
               /\ Trim(Val(work_requests'[id].date_changed_reason)) = Trim(Val(lastOp'.reason)) ]_vars

\* C5: in every reachable state every stored work request has a work_order_id
\* that is not NULL and reads WO-<n> with n a positive integer, and right
\* after a successful form submission the code shown to the submitter is the
\* work_order_id of the row just inserted.
C5_WorkOrderIdAssigned ==
    /\ \A id \in DOMAIN work_requests :
          /\ ~IsNull(work_requests[id].work_order_id)
          /\ IsWorkOrderCode(Val(work_requests[id].work_order_id))
    /\ (lastOp.op = "form_submit" /\ lastOp.failed = {}) =>
          /\ lastOp.id \in DOMAIN work_requests
          /\ isSubmitted
          /\ workOrderId = Val(work_requests[lastOp.id].work_order_id)

\* a second request has just been submitted and the form shows WO-2
C5_SecondRequestSubmitted ==
    /\ lastOp.op = "form_submit"
    /\ lastOp.failed = {}
    /\ lastOp.id = 2
    /\ workOrderId = WOPrefix \o <<"2">>
    /\ work_requests[1].work_order_id = Some(WOPrefix \o <<"1">>)

\* the transitions of the status workflow
Transitions ==
    { <<"pending", "approved">>, <<"pending", "rejected">>, <<"approved", "in_progress">>,
      <<"in_progress", "paused">>, <<"paused", "in_progress">>, <<"in_progress", "completed">> }

C7_ActorAndTimestampTogether ==
    \A id \in DOMAIN work_requests :
        LET row == work_requests[id]
        IN  /\ IsNull(row.approved_by) <=> IsNull(row.approved_at)
            /\ IsNull(row.rejected_by) <=> IsNull(row.rejected_at)
            /\ IsNull(row.started_by) <=> IsNull(row.started_at)
            /\ IsNull(row.completed_by) <=> IsNull(row.completed_at)

\* C8: no step removes a row of work_requests: every request stored before a
\* step is stored after it.
C8_NeverRemoved ==
    [][ DOMAIN work_requests \subseteq DOMAIN work_requests' ]_vars

\* approve_work_request has just moved a request from pending_work_requests
\* to approved_work, and its row of work_requests is still there
C8_ApprovedAndStillStored ==
    \E id \in DOMAIN work_requests :
        /\ lastOp.op = "wom_approve"
        /\ lastOp.id = id
        /\ lastOp.failed = {}
        /\ id \in approved_work
        /\ id \notin pending_work_requests

\* C9: a step of an admin action (pause, resume, start, approve, reject,
\* complete, calendar Save) in which a backend call failed leaves every
\* screen's list of work requests and the calendar's pending changes as they
\* were.
C9_FailureLeavesListsUnchanged ==
    [][ (lastOp'.op \in WomOps \cup DashOps \cup {"cal_save"} /\ lastOp'.failed # {}) =>
            UNCHANGED <<requests, dashRequests, workRequests, pendingChanges, pendingDateChanges>> ]_vars

\* C10: in every reachable state, a handler in which a backend call failed
\* has shown an error toast.
C10_FailureShowsToast ==
    lastOp.failed # {} => "destructive" \in lastOp.toasts

\* a row satisfies a view's search text and selects: the text occurs, letter
\* case aside, in its title, requestor, department or work-order code (the
\* calendar has no search box and selects by department instead), and each
\* select is "all" or names the row's value
SatisfiesView(view, row) ==
    /\ statusFilter = All \/ row.status = statusFilter
    /\ IF view = "calendar"
       THEN filterDepartment = AllText \/ row.department = filterDepartment
       ELSE /\ priorityFilter = All \/ row.priority = priorityFilter
            /\ \E f \in {row.title, row.requestor_name, row.department} \cup
                        (IF IsNull(row.work_order_id) THEN {} ELSE {Val(row.work_order_id)}) :
                   \E k \in 1..(Len(f) + 1) :
                       /\ k + Len(search) - 1 <= Len(f)
                       /\ \A n \in 1..Len(search) :
                              toLowerCase(<<f[k + n - 1]>>) = toLowerCase(<<search[n]>>)

\* the rendered list picks rows of the fetched list at increasing positions,
\* and picks every row that satisfies the view
IsTheMatchingSubsequence ==
    /\ \E at \in [1..Len(shown) -> 1..Len(fetchedList)] :
          /\ \A i \in 1..Len(shown) : shown[i] = fetchedList[at[i]]
          /\ \A i, j \in 1..Len(shown) : i < j => at[i] < at[j]
    /\ \A i \in 1..Len(shown) : SatisfiesView(filterView, shown[i])
    /\ Len(shown) = Cardinality({j \in 1..Len(fetchedList) : SatisfiesView(filterView, fetchedList[j])})

\* C11: whenever the work-order management screen, the dashboard or the
\* calendar computes its filtered list, the result is exactly the
\* sub-sequence of the fetched list whose rows satisfy the search text and
\* the selects, in the fetched order, and the fetched list is the same
\* after the computation as before it.
C11_FilteredIsMatchingSubsequence ==
    [][filterView' # "none" => (fetchedList' = fetchedList /\ IsTheMatchingSubsequence')]_vars

\* a view rendered some but not all of three fetched rows for a search text
\* written in another letter case than the rows
C11_SomeRowsFilteredOut ==
    /\ filterView \in {"wom", "dashboard"}
    /\ Len(fetchedList) = 3
    /\ Len(shown) = 2
    /\ search = <<"A", "B">>

\* the latest row write was followed by a request whose body names the
\* operation and the row and carries the stored values of these columns
PostedAfterLatestWrite(columns) ==
    ~IsNull(lastWrite) =>
        /\ ~IsNull(lastPost)
        /\ LET w    == Val(lastWrite)
               row  == work_requests[w.id]
               body == Val(lastPost)
           IN  /\ body.operation = w.op
               /\ body.id = w.id
               /\ body.table_name = "work_requests"
               /\ \A col \in columns : col \in DOMAIN body /\ body[col] = row[col]
               /\ body.old_requested_date =
                      IF w.op = "UPDATE" THEN Some(w.old.requested_date) ELSE Null

\* the columns of a stored row
RowColumns == DOMAIN NewRow(1, Null)

\* the columns of a stored row that the request body carries
WebhookColumns ==
    {"work_order_id", "requested_date", "status", "date_changed_reason", "approval_checklist"}

\* C12 (as stated): every insert and every update of a work request row
\* causes exactly one HTTP POST, issued after the row has been written and
\* carrying the full row (every column as stored) and, for an update, the
\* previous requested_date.
C12_PostCarriesFullRow ==
    /\ posted = rowsWritten
    /\ PostedAfterLatestWrite(RowColumns)

\* C12 (amended): every insert and every update of a work request row causes
\* exactly one HTTP POST, issued after the row has been written, whose body
\* carries the operation, the table name, the columns the trigger function
\* lists, with the values as stored, and for an update the previous
\* requested_date; the actor, timestamp and detail columns are not sent.
C12_PostCarriesListedColumns ==
    /\ posted = rowsWritten
    /\ PostedAfterLatestWrite(WebhookColumns)
    /\ ~IsNull(lastPost) => DOMAIN Val(lastPost) \cap RowColumns = WebhookColumns

\* an insert and an update that moved the requested date have been posted
C12_DateMovePosted ==
    /\ posted = 2
    /\ ~IsNull(lastPost)
    /\ Val(lastPost).operation = "UPDATE"
    /\ Val(lastPost).old_requested_date # Some(Val(lastPost).requested_date)
    /\ Val(lastPost).status = "approved"

\* the personal tasks a step created, changed or removed
TasksTouched ==
    {id \in DOMAIN personal_tasks \cup DOMAIN personal_tasks' :
        \/ id \notin DOMAIN personal_tasks
        \/ id \notin DOMAIN personal_tasks'
        \/ personal_tasks'[id] # personal_tasks[id]}

\* C13: a step creates, changes or removes a personal task only for the
\* user whose identity the request carries, and that user owns the task
\* before and after the step; a list the board fetches holds only tasks of
\* that user; so what the board creates or edits is stored under the
\* signed-in user's id.
C13_OnlyOwnTasks ==
    [][/\ \A id \in TasksTouched :
             /\ ~IsNull(authUid)
             /\ id \in DOMAIN personal_tasks => personal_tasks[id].user_id = Val(authUid)
             /\ id \in DOMAIN personal_tasks' => personal_tasks'[id].user_id = Val(authUid)
       /\ tasks' # tasks =>
             \A id \in DOMAIN tasks' : authUid = Some(tasks'[id].user_id)
      ]_vars

\* both users own a task, and the board of a browser that still holds the
\* other user's session has just had a save refused
C13_StaleSessionSaveRefused ==
    /\ \E i, j \in DOMAIN personal_tasks :
          personal_tasks[i].user_id = "u1" /\ personal_tasks[j].user_id = "u2"
    /\ authUid = Some("u2")
    /\ session = Some("u1")
    /\ taskOp = [op |-> "edit", error |-> TRUE]

\* C14: once the status page has answered, the requests it lists are all
\* the stored requests whose requestor_email equals the entered address
\* when letter case is ignored, each listed once, the newest first.
C14_StatusCheckIgnoresCase ==
    hasSearched = "page" =>
        /\ {statusRequests[i].id : i \in 1..Len(statusRequests)} =
               {j \in DOMAIN emailTable :
                   toLowerCase(emailTable[j].requestor_email) = toLowerCase(Trim(email))}
        /\ \A i \in 1..Len(statusRequests) : statusRequests[i] = emailTable[statusRequests[i].id]
        /\ \A i, j \in 1..Len(statusRequests) :
               i < j => statusRequests[i].created_at > statusRequests[j].created_at

\* C15: no two stored work requests have the same work_order_id, also when
\* two submissions are inserted concurrently and each computes its number
\* from the current maximum before the other commits.
C15_WorkOrderIdsUnique ==
    \A i, j \in DOMAIN work_requests :
        i # j /\ ~IsNull(work_requests[i].work_order_id) =>
            work_requests[i].work_order_id # work_requests[j].work_order_id

\* C16: whenever every emitted change event has been delivered and every
\* RPC response has been handled, the status the work-order management
\* list shows for each work order is the status stored in the backend.
C16_ListAgreesWhenQuiet ==
    feed = <<>> /\ responses = {} =>
        /\ DOMAIN requests = DOMAIN work_requests
        /\ \A id \in DOMAIN requests : requests[id].status = work_requests[id].status

\* C17: a work request whose stored status is rejected keeps that status in
\* every later state, whichever screen acts on it and whatever that
\* screen's list shows.
C17_RejectedIsFinal ==
    [][\A id \in DOMAIN work_requests :
           work_requests[id].status = "rejected" =>
               id \in DOMAIN work_requests' /\ work_requests'[id].status = "rejected"]_vars

ActorColumns ==
    {"approved_by", "approved_at", "rejected_by", "rejected_at",
     "started_by", "started_at", "completed_by", "completed_at"}

\* C18: when the dashboard's update and update_work_request_status have
\* both been applied to the same row with the same target status
\* (approved, rejected, in_progress or completed), the same inputs and the
\* dashboard's actor name, the two resulting rows have the same status,
\* requested_date, date_changed_reason, rejected_reason and actual_hours,
\* and the same actor and timestamp columns are non-null in both.
C18_ClientAndFunctionAgree ==
    /\ ~IsNull(clientTable)
    /\ ~IsNull(serverTable)
    /\ call.status \in {"approved", "rejected", "in_progress", "completed"}
    /\ call.user = Some(DashboardActor)
    => LET c == Val(clientTable)[call.id]
           s == Val(serverTable)[call.id]
       IN  /\ \A col \in {"status", "requested_date", "date_changed_reason",
                          "rejected_reason", "actual_hours"} : c[col] = s[col]
           /\ {col \in ActorColumns : ~IsNull(c[col])} = {col \in ActorColumns : ~IsNull(s[col])}

\* the columns that belong to a target status
OwnColumns(status) ==
    CASE status = "approved"    -> {"approved_by", "approved_at"}
      [] status = "rejected"    -> {"rejected_by", "rejected_at", "rejected_reason"}
      [] status = "in_progress" -> {"started_by", "started_at"}
      [] status = "completed"   -> {"completed_by", "completed_at", "actual_hours",
                                    "completion_notes"}
      [] OTHER                  -> {}

\* the columns in which the two tables differ, per row
ColumnsChanged(before, after, id) ==
    {col \in DOMAIN before[id] : after[id][col] # before[id][col]}

OnlyTargetColumnsChanged(before, after) ==
    /\ DOMAIN after = DOMAIN before
    /\ \A id \in DOMAIN before \ {call.id} : after[id] = before[id]
    /\ ColumnsChanged(before, after, call.id) \subseteq
           {"status"} \cup OwnColumns(call.status)
               \cup (IF IsNull(call.newDate) THEN {} ELSE {"requested_date"})

\* C19: a call of update_work_request_status (either overload) changes, in
\* the row it names, only status, the actor, timestamp and detail columns
\* of the target status, and requested_date when a new date is given; all
\* other columns of the row and all other rows are as before; so a call
\* with target paused changes nothing but status.
C19_OnlyTargetColumnsChange ==
    /\ ~IsNull(serverTable) => OnlyTargetColumnsChanged(callTable, Val(serverTable))
    /\ ~IsNull(legacyTable) => OnlyTargetColumnsChanged(callTable, Val(legacyTable))

\* a row in progress has been paused by a call that also named a user, a
\* reason, hours and notes: only its status changed
C19_PausedChangedStatusOnly ==
    /\ ~IsNull(serverTable)
    /\ call.status = "paused"
    /\ ~IsNull(call.user) /\ ~IsNull(call.reason) /\ ~IsNull(call.hours) /\ ~IsNull(call.notes)
    /\ IsNull(call.newDate)
    /\ callTable[call.id].status = "in_progress"
    /\ ColumnsChanged(callTable, Val(serverTable), call.id) = {"status"}

\* C20: after an approval that was reported successful and for which a
\* checklist with items was entered, by either admin screen, the request's
\* stored approval_checklist, read the way the work-order management
\* screen reads it, is the entered list of items; and so is the one in the
\* screen's list once it has fetched the rows.
C20_ChecklistReadBack ==
    ~IsNull(approvedWith) =>
        LET id == Val(approvedWith).id
        IN  /\ ReadChecklist(work_requests[id].approval_checklist) = Val(approvedWith).items
            /\ lastOp = Op("wom_fetch", 0, Null, {"select"}, {}, {}) =>
                   ReadChecklist(requests[id].approval_checklist) = Val(approvedWith).items

\* C21: a calendar Save is all-or-nothing: when one of its updates fails no
\* work order's stored requested_date has changed, and when the Save is
\* reported as successful every pending change has been written.
C21_SaveAllOrNothing ==
    [][(lastOp'.op = "cal_save" /\ "update" \in lastOp'.calls) =>
          IF "update" \in lastOp'.failed
          THEN \A id \in DOMAIN work_requests :
                   work_requests'[id].requested_date = work_requests[id].requested_date
          ELSE \A id \in DOMAIN pendingChanges :
                   work_requests'[id].requested_date = pendingChanges[id]]_vars

LogIndices(kind) == { i \in 1..Len(saveLog) : saveLog[i].kind = kind }
MovedIds == { saveOf[i].id : i \in 1..Len(saveOf) }
AllUpdatesWritten ==
    /\ \A i \in LogIndices("update") : saveLog[i].ok
    /\ \A id \in MovedIds : \E i \in LogIndices("update") : saveLog[i].id = id

\* C22: a calendar Save invokes notify-date-change exactly once for each
\* work order it had a pending date change for, after the last of its date
\* updates, when all of them were written, and not at all when one of the
\* updates failed.
C22_NotifyOncePerMoveAfterUpdates ==
    /\ \A id \in MovedIds :
           Cardinality({ i \in LogIndices("notify") : saveLog[i].id = id })
               = IF AllUpdatesWritten THEN 1 ELSE 0
    /\ \A i \in LogIndices("notify") :
           /\ saveLog[i].id \in MovedIds
           /\ \A j \in LogIndices("update") : j < i

C22_TwoMovesNotified ==
    /\ Cardinality(MovedIds) = 2
    /\ Cardinality(LogIndices("notify")) = 2
    /\ lastOp.op = "cal_save" /\ "default" \in lastOp.toasts

\* C23: every pending change of the calendar, in the map of pending dates
\* and in the list of pending date changes, has a new date different from
\* the requested_date the work order is stored with.
C23_PendingChangeMovesTheDate ==
    /\ \A id \in DOMAIN pendingChanges :
           pendingChanges[id] # work_requests[id].requested_date
    /\ \A i \in 1..Len(pendingDateChanges) :
           pendingDateChanges[i].newDate # work_requests[pendingDateChanges[i].id].requested_date

\* C24: the list of the work-order management screen never holds two
\* entries with the same id, however the response of the fetch started on
\* mount and the INSERT, UPDATE and DELETE change events interleave.
C24_NoDuplicateIds ==
    \A i, j \in 1..Len(rowList) : rowList[i].id = rowList[j].id => i = j

\* C25: on both admin tables, whenever the filtered list is not empty the
\* current page does not exceed the number of pages of the filtered list
\* and the page shown holds at least one row.
C25_PageWithinFilteredList ==
    PageFiltered # <<>> => page <= PageTotal /\ PageShown # <<>>

\* C26: the row the public form inserts has a non-empty title, location,
\* department, description, requested date, name and email, whatever
\* sequence of Next, Back and Edit steps and field edits came before the
\* submit, and the step index stays within 0..3.
C26_InsertedRowIsFilled ==
    /\ currentStep \in 0..3
    /\ ~IsNull(inserted) =>
           \A column \in {"title", "location", "department", "description", "requested_date",
                          "requestor_name", "requestor_email"} :
               Val(inserted)[column] # <<>>

\* a request has been inserted whose priority was chosen on the second step
C26_SubmittedAfterEdit ==
    /\ ~IsNull(inserted)
    /\ isSubmitted
    /\ Val(inserted).priority = <<"h">>

\* C27: once no analytics fetch is in flight, and the fetch for the
\* selected time range has not failed, the figures shown are those of the
\* rows of the selected range, in whichever order the responses arrived.
C27_FiguresOfSelectedRange ==
    (analyticsCalls = {} /\ ~latestFailed) =>
        /\ shownFrom = Some(RowsInRange(analyticsTable, timeRange))
        /\ totalRequests = Len(RowsInRange(analyticsTable, timeRange))

\* the day an instant falls on
DayOf(instant) == instant \div HoursPerDay

\* on time: completed on the requested day; late: on a later day; early:
\* on an earlier day
ClaimedPerformance(req) ==
    IF DayOf(Val(req.completed_at)) = req.requested_date THEN "onTime"
    ELSE IF DayOf(Val(req.completed_at)) > req.requested_date THEN "late" ELSE "early"

\* C28: every completed request of the rows the figures were computed from
\* is counted as on time when its completion falls on its requested day, as
\* late when on a later day and as early when on an earlier day, and the
\* on-time rate shown is the rounded percentage of the on-time ones among
\* the completed requests so classified.
C28_OnTimeByCalendarDay ==
    ~IsNull(shownFrom) =>
        LET classified == { i \in 1..Len(Val(shownFrom)) :
                              /\ Val(shownFrom)[i].status = "completed"
                              /\ ~IsNull(Val(shownFrom)[i].completed_at) }
            onTime == { i \in classified : ClaimedPerformance(Val(shownFrom)[i]) = "onTime" }
        IN  /\ \A i \in classified :
                   Performance(Val(shownFrom)[i]) = ClaimedPerformance(Val(shownFrom)[i])
            /\ classified # {} =>
                   onTimeRate = RoundedPercent(Cardinality(onTime), Cardinality(classified))

====
